---- MODULE Spec2Model ----
(***************************************************************************)
(* A model of github-repo-to-single-file: the bounded-concurrency limiter  *)
(* (src/src/concurrency.ts), the checkpoint store (src/src/io.ts, the      *)
(* checkpoint.ts part) and the export pipeline (src/src/exporter.ts).      *)
(*                                                                         *)
(* Node runs one continuation at a time, so an action is the code between  *)
(* two suspension points (await) of one async function.                    *)
(***************************************************************************)
EXTENDS Integers, Sequences, FiniteSets, TLC

\* ---------------------------------------------------------------- bounds
MaxItems == 3
MaxLimit == 3
MaxCkOps == 4

\* The longest tree listing.
MaxTree == 3

\* The number of runs, a failed one and the one that resumes it.
MaxRuns == 2

\* MAX_CONCURRENCY of config.ts, 8 by default, is taken smaller so that the
\* collector's limit binds on the listings of the model.
MAX_CONCURRENCY == 2

\* The longest list of lines handed to splitIntoPages: two full pages and
\* a few lines of a third.
MaxLines == 120

\* The longest text rendered as a PDF, in lines: one full page and the
\* first lines of a second.
MaxPdfLines == 60

\* MAX_RETRIES of config.ts, whose value the sources do not give.
MAX_RETRIES == 2

\* The largest processed or total value handed to the progress reporter.
MaxProgress == 3

\* MAX_TEXT_BLOB_BYTES of config.ts: 5 MB.
MAX_TEXT_BLOB_BYTES == 5242880

\* ------------------------------------------------------------- utilities
Min(a, b) == IF a <= b THEN a ELSE b

Max(a, b) == IF a >= b THEN a ELSE b

SeqsUpTo(S, n) == UNION {[1..k -> S] : k \in 0..n}

\* The members of a sequence.
Range(seq) == {seq[i] : i \in 1..Len(seq)}


\* ------------------------------------------------- mapWithConcurrency
\* A slot of `new Array(n)` that was never assigned (no worker result is
\* negative).
Empty == 0 - 1

\* An absent value is the empty sequence and a present one a sequence of one.
None == <<>>

Some(x) == <<x>>

\* What a promise is rejected with: the limit error of line 7, or the
\* rejection of the worker invoked for a position.
NoError == [kind |-> "none", position |-> 0]

LimitError == [kind |-> "limit", position |-> 0]

WorkerError(position) == [kind |-> "worker", position |-> position]

\* Values the items of a call are drawn from.
ItemValues == {1, 2}

\* limit as the callers pass it: below 1, and from 1 up.
Limits == (0 - 1)..MaxLimit

VARIABLES
  items,      \* the items argument
  limit,      \* the limit argument
  index,      \* `let index`: the shared cursor, the next unclaimed 0-based index
  results,    \* `const results`: 1-based here, results[i] is JS results[i-1]
  runners,    \* one record per runner: where it stands in its loop
  mapState,   \* the promise mapWithConcurrency returned: idle before the call
  mapError,   \* what the promise was rejected with
  returned,   \* what the promise resolved with
  calls,      \* history: the positions worker was invoked for, in order
  settled     \* history: the invocations that settled, in order, and how

mapVars == <<items, limit, index, results, runners, mapState, mapError,
             returned, calls, settled>>

\* The transform of the test suite: async (value) => value * 2.
worker(item, position) == item * 2

\* Line 6: if (limit < 1) throw.
LimitTooSmallOff(lim) == lim < 0

LimitTooSmall(lim) == lim < 1

\* Line 13: Array.from({ length: Math.min(limit, items.length) }, ...).
RunnerCountUncapped(its, lim) == Len(its)

RunnerCount(its, lim) == Min(lim, Len(its))

\* Lines 15-18 without line 17: the cursor stays where it is.
LoopHeadNoAdvance(idx, n) ==
  IF idx >= n
    THEN [pc |-> "done", current |-> 0, index |-> idx]
    ELSE [pc |-> "awaiting", current |-> idx + 1, index |-> idx]

\* Lines 15-18, the head of the runner's loop with the cursor at idx and n
\* items: the runner breaks, or claims position idx + 1 and invokes worker.
LoopHead(idx, n) ==
  IF idx >= n
    THEN [pc |-> "done", current |-> 0, index |-> idx]
    ELSE [pc |-> "awaiting", current |-> idx + 1, index |-> idx + 1]

\* Line 22 resolving only for a runner list that is not empty.
AllDoneOfSome(rs) == rs # <<>> /\ \A r \in DOMAIN rs : rs[r].pc = "done"

\* Line 22: Promise.all(runners) resolves once every runner has returned.
AllDone(rs) == \A r \in DOMAIN rs : rs[r].pc = "done"

\* Line 18: the slot the awaited value is stored in: results[current].
StoreSlotCursor(r) == index + 1

StoreSlot(r) == runners[r].current

\* Lines 6-22 up to the first suspension: the limit check, the result array,
\* and every runner run synchronously up to its first await, in order.
MapCall(its, lim) ==
  /\ mapState = "idle"
  /\ items' = its
  /\ limit' = lim
  /\ settled' = <<>>
  /\ IF LimitTooSmall(lim)
       THEN /\ mapState' = "rejected"
            /\ mapError' = LimitError
            /\ returned' = None
            /\ UNCHANGED <<index, results, runners, calls>>
       ELSE LET n == Len(its)
                count == RunnerCount(its, lim)
                started == [r \in 1..count |-> LoopHead(Min(r - 1, n), n)]
            IN  /\ results' = [i \in 1..n |-> Empty]
                /\ runners' = [r \in 1..count |->
                                 [pc |-> started[r].pc,
                                  current |-> started[r].current]]
                /\ index' = Min(count, n)
                /\ calls' = [i \in 1..Min(count, n) |-> i]
                /\ mapError' = NoError
                /\ mapState' = IF AllDone(started) THEN "resolved" ELSE "pending"
                /\ returned' = IF AllDone(started) THEN Some(results') ELSE None

\* Line 18 after the await, then lines 14-18 again: the value is stored and
\* the runner claims the next item or returns.
RunnerResume(r, value) ==
  LET n == Len(items)
      stored == IF StoreSlot(r) \in DOMAIN results
                  THEN [results EXCEPT ![StoreSlot(r)] = value]
                  ELSE results
      next == LoopHead(index, n)
      rs == [runners EXCEPT ![r] = [pc |-> next.pc, current |-> next.current]]
  IN  /\ results' = stored
      /\ index' = next.index
      /\ runners' = rs
      /\ calls' = IF next.pc = "awaiting" THEN Append(calls, next.current)
                                          ELSE calls
      /\ IF mapState = "pending" /\ AllDone(rs)
           THEN mapState' = "resolved" /\ returned' = Some(stored)
           ELSE UNCHANGED <<mapState, returned>>
      /\ UNCHANGED mapError

\* A runner whose awaited worker rejects: nothing catches inside the runner,
\* so the runner's promise rejects and Promise.all rejects with the first one.
RunnerThrowSwallowed(r) ==
  RunnerResume(r, Empty)

RunnerThrow(r) ==
  /\ runners' = [runners EXCEPT ![r].pc = "rejected"]
  /\ IF mapState = "pending"
       THEN mapState' = "rejected" /\ mapError' = WorkerError(runners[r].current)
       ELSE UNCHANGED <<mapState, mapError>>
  /\ UNCHANGED <<index, results, returned, calls>>

\* The worker invocation runner r awaits settles.
MapSettle(r, ok) ==
  /\ mapState # "idle"
  /\ r \in DOMAIN runners
  /\ runners[r].pc = "awaiting"
  /\ settled' = Append(settled, [position |-> runners[r].current, ok |-> ok])
  /\ IF ok
       THEN RunnerResume(r, worker(items[runners[r].current], runners[r].current))
       ELSE RunnerThrow(r)
  /\ UNCHANGED <<items, limit>>

MapInit ==
  /\ items = <<>>
  /\ limit = 1
  /\ index = 0
  /\ results = <<>>
  /\ runners = <<>>
  /\ mapState = "idle"
  /\ mapError = NoError
  /\ returned = None
  /\ calls = <<>>
  /\ settled = <<>>

\* ------------------------------------------------------ checkpoint store
\* A path is a string, modelled as the sequence of its characters.
Slash == "/"

Dot == "."

DotDot == <<".", ".">>

\* The directory workDirectoryFor yields, made absolute as resolve(base) does:
\* OUT_DIR/.work is "/o" and the identity's directory name is "w".
workDirectoryFor == <<"/", "o", "/", "w">>

RECURSIVE StripLeadingSlashes(_)
\* relativePath.replace(/^\/+/, "")
StripLeadingSlashes(p) ==
  IF p # <<>> /\ Head(p) = Slash THEN StripLeadingSlashes(Tail(p)) ELSE p

RECURSIVE SplitAcc(_, _, _)
SplitAcc(p, current, done) ==
  IF p = <<>> THEN Append(done, current)
  ELSE IF Head(p) = Slash THEN SplitAcc(Tail(p), <<>>, Append(done, current))
  ELSE SplitAcc(Tail(p), Append(current, Head(p)), done)

\* The segments of a path between its separators.
Split(p) == SplitAcc(p, <<>>, <<>>)

RECURSIVE NormalizeAcc(_, _)
\* node:path normalizeString for an absolute path: empty and "." segments are
\* dropped, ".." drops the segment before it and is itself dropped at the root.
NormalizeAcc(segs, stack) ==
  IF segs = <<>> THEN stack
  ELSE LET seg == Head(segs)
       IN  IF seg = <<>> \/ seg = <<Dot>> THEN NormalizeAcc(Tail(segs), stack)
           ELSE IF seg = DotDot
             THEN NormalizeAcc(Tail(segs),
                               IF stack = <<>> THEN stack
                               ELSE SubSeq(stack, 1, Len(stack) - 1))
           ELSE NormalizeAcc(Tail(segs), Append(stack, seg))

RECURSIVE JoinAbsolute(_)
\* "/" for no segment, and "/s1/s2/..." otherwise.
JoinAbsolute(stack) ==
  IF stack = <<>> THEN <<Slash>>
  ELSE IF Len(stack) = 1 THEN <<Slash>> \o stack[1]
  ELSE JoinAbsolute(SubSeq(stack, 1, Len(stack) - 1)) \o <<Slash>> \o stack[Len(stack)]

IsAbsolute(p) == p # <<>> /\ Head(p) = Slash

\* node:path resolve(base, rel) for an absolute base: an absolute rel replaces
\* the base, an empty rel is skipped, and the result is normalized.
resolve(base, rel) ==
  IF IsAbsolute(rel) THEN JoinAbsolute(NormalizeAcc(Split(rel), <<>>))
  ELSE JoinAbsolute(NormalizeAcc(Split(base \o <<Slash>> \o rel), <<>>))

\* String.prototype.startsWith.
StartsWith(s, prefix) ==
  /\ Len(prefix) <= Len(s)
  /\ SubSeq(s, 1, Len(prefix)) = prefix

\* The leading-slash strip of resolveWithin (line 210).
CleanedKeepSlashes(relativePath) == relativePath

Cleaned(relativePath) == StripLeadingSlashes(relativePath)

\* The containment test of resolveWithin (line 212).
StaysWithin(full, base) == StartsWith(full, resolve(base, <<>>))

\* resolveWithin: ok is FALSE where the code throws "Resolved path escapes
\* work directory".
resolveWithin(base, relativePath) ==
  LET full == resolve(base, Cleaned(relativePath))
  IN  [ok |-> StaysWithin(full, base), full |-> full]

\* node:path dirname of a normalized absolute path.
dirname(absolute) ==
  LET segs == NormalizeAcc(Split(absolute), <<>>)
  IN  IF segs = <<>> THEN <<Slash>>
      ELSE JoinAbsolute(SubSeq(segs, 1, Len(segs) - 1))

\* The directories above a normalized absolute path, the root included.
Ancestors(absolute) ==
  LET segs == NormalizeAcc(Split(absolute), <<>>)
  IN  {JoinAbsolute(SubSeq(segs, 1, k)) : k \in 0..(Len(segs) - 1)}

\* The path arguments calls are made with, written as their segments:
\*   a   a/a   wa   /a   //a   ./a   a/../a   (empty)   .
\*   ..   ../a   ../../a   ../wa   ../wa/a   /../wa
\* "wa" is a name that extends the work directory's name "w".
RECURSIVE JoinSegs(_)
JoinSegs(segs) ==
  IF segs = <<>> THEN <<>>
  ELSE IF Len(segs) = 1 THEN segs[1]
  ELSE segs[1] \o <<Slash>> \o JoinSegs(Tail(segs))

PathSegments ==
  {<<<<"a">>>>, <<<<"a">>, <<"a">>>>, <<<<"w", "a">>>>,
   <<<<>>, <<"a">>>>, <<<<>>, <<>>, <<"a">>>>, <<<<Dot>>, <<"a">>>>,
   <<<<"a">>, DotDot, <<"a">>>>, <<>>, <<<<Dot>>>>,
   <<DotDot>>, <<DotDot, <<"a">>>>, <<DotDot, DotDot, <<"a">>>>,
   <<DotDot, <<"w", "a">>>>, <<DotDot, <<"w", "a">>, <<"a">>>>,
   <<<<>>, DotDot, <<"w", "a">>>>}

PathArgs == {JoinSegs(segs) : segs \in PathSegments}

CountPaths == {<<"a">>, <<"a", Slash, "a">>, <<Dot, Dot, Slash, "a">>, <<Slash, "a">>}

CountLists == {<<>>} \cup {<<p>> : p \in CountPaths}
              \cup {<<<<"a">>, p>> : p \in CountPaths}

\* The paths of the blobs the collector caches.
BlobPaths == {<<"a">>, <<"w", "a">>, <<"a", Dot, "t", "s">>}

AllPathArgs == PathArgs \cup CountPaths \cup BlobPaths

\* resolveWithin(workDir, p), tabulated once for the path arguments.
ResolvedAt == [p \in AllPathArgs |-> resolveWithin(workDirectoryFor, p)]

\* The locations those arguments resolve to, and the directories above them.
KnownLocations ==
  LET hit == {ResolvedAt[p].full : p \in AllPathArgs} \cup {workDirectoryFor}
  IN  hit \cup UNION {Ancestors(q) : q \in hit}

\* dirname and Ancestors, tabulated once for those locations.
dirnameAt == [q \in KnownLocations |-> dirname(q)]

AncestorsAt == [q \in KnownLocations |-> Ancestors(q)]

\* Text is a sequence of code points; a file holds bytes.
Utf8EncodeChar(cp) ==
  IF cp < 128 THEN <<cp>>
  ELSE IF cp < 2048 THEN <<192 + (cp \div 64), 128 + (cp % 64)>>
  ELSE <<224 + (cp \div 4096), 128 + ((cp \div 64) % 64), 128 + (cp % 64)>>

RECURSIVE Utf8Encode(_)
\* writeFile(absolute, content, "utf8")
Utf8Encode(text) ==
  IF text = <<>> THEN <<>>
  ELSE Utf8EncodeChar(Head(text)) \o Utf8Encode(Tail(text))

IsContinuation(b) == b >= 128 /\ b < 192

RECURSIVE Utf8Decode(_)
\* buf.toString("utf8"): an invalid byte decodes to U+FFFD.
Utf8Decode(bytes) ==
  IF bytes = <<>> THEN <<>>
  ELSE LET b == Head(bytes)
       IN  IF b < 128 THEN <<b>> \o Utf8Decode(Tail(bytes))
           ELSE IF b >= 192 /\ b < 224 /\ Len(bytes) >= 2 /\ IsContinuation(bytes[2])
             THEN <<(b - 192) * 64 + (bytes[2] - 128)>>
                  \o Utf8Decode(SubSeq(bytes, 3, Len(bytes)))
           ELSE IF b >= 224 /\ b < 240 /\ Len(bytes) >= 3
                   /\ IsContinuation(bytes[2]) /\ IsContinuation(bytes[3])
             THEN <<(b - 224) * 4096 + (bytes[2] - 128) * 64 + (bytes[3] - 128)>>
                  \o Utf8Decode(SubSeq(bytes, 4, Len(bytes)))
           ELSE <<65533>> \o Utf8Decode(Tail(bytes))

\* buf.toString("latin1") in place of "utf8": one character per byte.
DecodeCachedLatin1(bytes) == bytes

\* readCachedFile line 246.
DecodeCached(bytes) == Utf8Decode(bytes)

\* The file system: its directories, and its regular files with their bytes.
NoFiles == [absolute \in {} |-> <<>>]

IsDir(fs, absolute) == absolute \in fs.dirs

IsFile(fs, absolute) == absolute \in DOMAIN fs.files

\* What is at or under a directory.
Under(fs, dir) ==
  {q \in fs.dirs \cup DOMAIN fs.files : q = dir \/ dir \in AncestorsAt[q]}

\* fs.stat: "file", "dir", or the error code.
stat(fs, absolute) ==
  IF IsDir(fs, absolute) THEN "dir"
  ELSE IF IsFile(fs, absolute) THEN "file"
  ELSE IF \E a \in AncestorsAt[absolute] : IsFile(fs, a) THEN "ENOTDIR"
  ELSE "ENOENT"

\* statIfFile (lines 218-228): TRUE, FALSE, or the error it rethrows.
statIfFileEnoentOnly(fs, absolute) ==
  LET st == stat(fs, absolute)
  IN  IF st = "file" THEN [ok |-> TRUE, isFile |-> TRUE]
      ELSE [ok |-> TRUE, isFile |-> FALSE]

statIfFile(fs, absolute) ==
  LET st == stat(fs, absolute)
  IN  IF st = "file" THEN [ok |-> TRUE, isFile |-> TRUE]
      ELSE IF st = "dir" \/ st = "ENOENT" THEN [ok |-> TRUE, isFile |-> FALSE]
      ELSE [ok |-> FALSE, isFile |-> FALSE]

\* mkdir(dir, { recursive: true }): fails, changing nothing, when the path or
\* one of its ancestors is a regular file.
mkdir(fs, dir) ==
  IF \E a \in AncestorsAt[dir] \cup {dir} : IsFile(fs, a)
    THEN [ok |-> FALSE, fs |-> fs]
    ELSE [ok |-> TRUE,
          fs |-> [fs EXCEPT !.dirs = @ \cup AncestorsAt[dir] \cup {dir}]]

\* writeFile(absolute, content, "utf8"): fails on a directory (EISDIR) and
\* where the parent is no directory.
writeFile(fs, absolute, content) ==
  IF IsDir(fs, absolute) \/ ~IsDir(fs, dirnameAt[absolute])
    THEN [ok |-> FALSE, fs |-> fs]
    ELSE [ok |-> TRUE,
          fs |-> [fs EXCEPT !.files =
                    [q \in DOMAIN @ \cup {absolute} |->
                       IF q = absolute THEN Utf8Encode(content) ELSE @[q]]]]

\* rm(dir, { recursive: true, force: true }) when it succeeds.
rm(fs, dir) ==
  LET gone == Under(fs, dir)
  IN  [dirs |-> fs.dirs \ gone,
       files |-> [q \in DOMAIN fs.files \ gone |-> fs.files[q]]]

\* rm failing part-way: the files in `removed` are gone, the rest is left.
rmFailing(fs, dir, removed) ==
  [dirs |-> fs.dirs,
   files |-> [q \in DOMAIN fs.files \ removed |-> fs.files[q]]]

\* The result of a checkpoint call: the file system it leaves, how it ended
\* ("ok", "path-violation" for the error of resolveWithin, "fs-error" for a
\* rejected file-system call), what it returned, and the locations it acted on.
CallResult(fs, outcome, value, count, touched) ==
  [fs |-> fs, outcome |-> outcome, value |-> value, count |-> count,
   touched |-> touched]

\* ensureWorkDirectory (lines 230-234).
ensureWorkDirectory(fs) == mkdir(fs, workDirectoryFor)

\* readCachedFile (lines 236-247).
readCachedFile(fs, filePath) ==
  LET r == ResolvedAt[filePath]
      st == statIfFile(fs, r.full)
  IN  IF ~r.ok THEN CallResult(fs, "path-violation", None, 0, {})
      ELSE IF ~st.ok THEN CallResult(fs, "fs-error", None, 0, {r.full})
      ELSE IF ~st.isFile THEN CallResult(fs, "ok", None, 0, {r.full})
      ELSE CallResult(fs, "ok", Some(DecodeCached(fs.files[r.full])), 0, {r.full})

\* writeCachedFile (lines 249-258).
writeCachedFile(fs, filePath, content) ==
  LET ensured == ensureWorkDirectory(fs)
      r == ResolvedAt[filePath]
      made == mkdir(ensured.fs, dirnameAt[r.full])
      wrote == writeFile(made.fs, r.full, content)
      created == made.fs.dirs \ ensured.fs.dirs
  IN  IF ~ensured.ok THEN CallResult(fs, "fs-error", None, 0, {})
      ELSE IF ~r.ok THEN CallResult(ensured.fs, "path-violation", None, 0, {})
      ELSE IF ~made.ok THEN CallResult(ensured.fs, "fs-error", None, 0, {r.full})
      ELSE IF ~wrote.ok
        THEN CallResult(made.fs, "fs-error", None, 0, {r.full} \cup created)
      ELSE CallResult(wrote.fs, "ok", None, 0, {r.full} \cup created)

\* hasCachedFile (lines 269-275): count is 1 for true and 0 for false.
hasCachedFile(fs, filePath) ==
  LET r == ResolvedAt[filePath]
      st == statIfFile(fs, r.full)
  IN  IF ~r.ok THEN CallResult(fs, "path-violation", None, 0, {})
      ELSE IF ~st.ok THEN CallResult(fs, "fs-error", None, 0, {r.full})
      ELSE CallResult(fs, "ok", None, IF st.isFile THEN 1 ELSE 0, {r.full})

\* countCachedFiles (lines 277-286): resolveWithin throws inside map, after
\* the stat calls of the paths before it were started.
countCachedFiles(fs, filePaths) ==
  LET ensured == ensureWorkDirectory(fs)
      n == Len(filePaths)
      r == [i \in 1..n |-> ResolvedAt[filePaths[i]]]
      bad == {i \in 1..n : ~r[i].ok}
      upTo == IF bad = {} THEN n
              ELSE (CHOOSE i \in bad : \A j \in bad : i <= j) - 1
      st == [i \in 1..upTo |-> statIfFile(ensured.fs, r[i].full)]
      touched == {r[i].full : i \in 1..upTo}
  IN  IF ~ensured.ok THEN CallResult(fs, "fs-error", None, 0, {})
      ELSE IF bad # {} THEN CallResult(ensured.fs, "path-violation", None, 0, touched)
      ELSE IF \E i \in 1..n : ~st[i].ok
        THEN CallResult(ensured.fs, "fs-error", None, 0, touched)
      ELSE CallResult(ensured.fs, "ok", None,
                      Cardinality({i \in 1..n : st[i].isFile}), touched)

\* cleanupWorkDirectory (lines 260-267): the rejection of rm is caught and
\* dropped. rmOk says whether rm succeeds; a failing rm has removed `removed`.
cleanupWorkDirectoryThrowing(fs, rmOk, removed) ==
  IF rmOk
    THEN CallResult(rm(fs, workDirectoryFor), "ok", None, 0, {workDirectoryFor})
    ELSE CallResult(rmFailing(fs, workDirectoryFor, removed), "fs-error", None, 0,
                    {workDirectoryFor})

cleanupWorkDirectory(fs, rmOk, removed) ==
  IF rmOk
    THEN CallResult(rm(fs, workDirectoryFor), "ok", None, 0, {workDirectoryFor})
    ELSE CallResult(rmFailing(fs, workDirectoryFor, removed), "ok", None, 0,
                    {workDirectoryFor})

VARIABLES
  fs,            \* the file system under OUT_DIR
  lastOp,        \* the checkpoint call made last, with its result
  lastWritten,   \* history: location -> text of the last successful write
                 \* since the last successful purge, and how many there were
  cleanupCalled, \* history: cleanupWorkDirectory was called
  ckOps          \* the number of checkpoint calls made

ckVars == <<fs, lastOp, lastWritten, cleanupCalled, ckOps>>

NoText == <<>>

NoOp == [op |-> "none", paths |-> <<>>, content |-> NoText, outcome |-> "ok",
         value |-> None, count |-> 0, touched |-> {}]

OpRecord(op, paths, content, result) ==
  [op |-> op, paths |-> paths, content |-> content, outcome |-> result.outcome,
   value |-> result.value, count |-> result.count, touched |-> result.touched]

\* OUT_DIR/.work exists and holds no work directory yet.
EmptyStore == [dirs |-> {<<Slash>>, <<Slash, "o">>}, files |-> NoFiles]

CkInit ==
  /\ fs = EmptyStore
  /\ lastOp = NoOp
  /\ lastWritten = NoFiles
  /\ cleanupCalled = FALSE
  /\ ckOps = 0

\* The history of writes after a successful write of content at target.
Written(history, target, content) ==
  [q \in DOMAIN history \cup {target} |->
     IF q = target
       THEN [content |-> content,
             writes |-> IF q \in DOMAIN history THEN history[q].writes + 1 ELSE 1]
       ELSE history[q]]

\* Checkpoint calls are made one after the other, each awaited.
CkRead(filePath) ==
  LET result == readCachedFile(fs, filePath)
  IN  /\ ckOps < MaxCkOps
      /\ ckOps' = ckOps + 1
      /\ fs' = result.fs
      /\ lastOp' = OpRecord("read", <<filePath>>, NoText, result)
      /\ UNCHANGED <<lastWritten, cleanupCalled>>

CkWrite(filePath, content) ==
  LET result == writeCachedFile(fs, filePath, content)
      target == ResolvedAt[filePath].full
  IN  /\ ckOps < MaxCkOps
      /\ ckOps' = ckOps + 1
      /\ fs' = result.fs
      /\ lastOp' = OpRecord("write", <<filePath>>, content, result)
      /\ lastWritten' =
           IF result.outcome = "ok" THEN Written(lastWritten, target, content)
                                    ELSE lastWritten
      /\ UNCHANGED cleanupCalled

CkHas(filePath) ==
  LET result == hasCachedFile(fs, filePath)
  IN  /\ ckOps < MaxCkOps
      /\ ckOps' = ckOps + 1
      /\ fs' = result.fs
      /\ lastOp' = OpRecord("has", <<filePath>>, NoText, result)
      /\ UNCHANGED <<lastWritten, cleanupCalled>>

CkCount(filePaths) ==
  LET result == countCachedFiles(fs, filePaths)
  IN  /\ ckOps < MaxCkOps
      /\ ckOps' = ckOps + 1
      /\ fs' = result.fs
      /\ lastOp' = OpRecord("count", filePaths, NoText, result)
      /\ UNCHANGED <<lastWritten, cleanupCalled>>

CkCleanup(rmOk, removed) ==
  LET result == cleanupWorkDirectory(fs, rmOk, removed)
  IN  /\ ckOps < MaxCkOps
      /\ ckOps' = ckOps + 1
      /\ fs' = result.fs
      /\ lastOp' = OpRecord("cleanup", <<>>, NoText, result)
      /\ lastWritten' =
           IF rmOk THEN NoFiles
           ELSE [q \in DOMAIN lastWritten \ removed |-> lastWritten[q]]
      /\ cleanupCalled' = TRUE

\* ------------------------------------------------------------ text.ts
\* toLowerCase on the letters A to Z; the other characters of the model's
\* paths have no lower case of their own.
UpperLetters ==
  <<"A", "B", "C", "D", "E", "F", "G", "H", "I", "J", "K", "L", "M", "N", "O", "P",
    "Q", "R", "S", "T", "U", "V", "W", "X", "Y", "Z">>

LowerLetters ==
  <<"a", "b", "c", "d", "e", "f", "g", "h", "i", "j", "k", "l", "m", "n", "o", "p",
    "q", "r", "s", "t", "u", "v", "w", "x", "y", "z">>

LowerChar(c) ==
  IF \E i \in 1..26 : UpperLetters[i] = c
    THEN LowerLetters[CHOOSE i \in 1..26 : UpperLetters[i] = c]
  ELSE c

toLowerCase(str) == [i \in 1..Len(str) |-> LowerChar(str[i])]

\* lastIndexOf for one character: the last 1-based position, 0 for none.
lastIndexOf(str, c) ==
  LET hits == {i \in 1..Len(str) : str[i] = c}
  IN  IF hits = {} THEN 0 ELSE CHOOSE i \in hits : \A j \in hits : j <= i

EndsWith(str, suffix) ==
  /\ Len(suffix) <= Len(str)
  /\ SubSeq(str, Len(str) - Len(suffix) + 1, Len(str)) = suffix

Includes(str, part) ==
  \E i \in 1..(Len(str) - Len(part) + 1) : SubSeq(str, i, i + Len(part) - 1) = part

\* extractExtension (lines 3-7): None for null.
extractExtension(path) ==
  LET lower == toLowerCase(path)
      lastDot == lastIndexOf(lower, Dot)
  IN  IF lastDot >= 1 THEN Some(SubSeq(lower, lastDot, Len(lower))) ELSE None

\* The line terminators "." of a regular expression does not match, among
\* the characters of the model's paths.
LineTerminators == {"\n", "\r"}

\* lower.replace(/^.*[\\/]/, ""): the match starts at the start of the
\* string and "." stops at a line terminator, so what is removed ends at
\* the last "/" or "\" before the first line terminator.
BaseName(lower) ==
  LET stops == {i \in 1..Len(lower) : lower[i] \in LineTerminators}
      firstLine == IF stops = {} THEN Len(lower)
                   ELSE (CHOOSE i \in stops : \A j \in stops : i <= j) - 1
      seps == {i \in 1..firstLine : lower[i] = Slash \/ lower[i] = "\\"}
      last == IF seps = {} THEN 0 ELSE CHOOSE i \in seps : \A j \in seps : j <= i
  IN  SubSeq(lower, last + 1, Len(lower))

\* isLockFile (lines 9-17).
isLockFile(path) ==
  LET base == BaseName(toLowerCase(path))
  IN  \/ base = <<"l", "o", "c", "k", "f", "i", "l", "e">>
      \/ StartsWith(base, <<"l", "o", "c", "k", "f", "i", "l", "e", ".">>)
      \/ EndsWith(base, <<".", "l", "o", "c", "k">>)
      \/ EndsWith(base, <<".", "l", "o", "c", "k", "f", "i", "l", "e">>)
      \/ Includes(base, <<"-", "l", "o", "c", "k", ".">>)
      \/ base = <<"y", "a", "r", "n", ".", "l", "o", "c", "k">>
      \/ base = <<"p", "n", "p", "m", "-", "l", "o", "c", "k", ".", "y", "a", "m", "l">>
      \/ base = <<"p", "n", "p", "m", "-", "l", "o", "c", "k", ".", "y", "m", "l">>

\* Members of config.ts's extension sets that the test suite names.
SKIP_EXTENSIONS == {<<".", "p", "n", "g">>, <<".", "z", "i", "p">>}

TEXT_EXTENSIONS == {<<".", "t", "s">>}

\* hasSkippedExtension (lines 19-23).
hasSkippedExtension(path) ==
  \/ isLockFile(path)
  \/ LET ext == extractExtension(path)
     IN  ext # None /\ ext[1] \in SKIP_EXTENSIONS

\* looksTexty (lines 25-43): the sample is the first 2048 bytes.
looksTexty(path, bytes) ==
  LET ext == extractExtension(path)
      sample == SubSeq(bytes, 1, Min(Len(bytes), 2048))
      nonPrintable ==
        Cardinality({i \in 1..Len(sample) :
                       /\ sample[i] \notin {9, 10, 13}
                       /\ sample[i] < 32})
  IN  IF hasSkippedExtension(path) THEN FALSE
      ELSE IF ext # None /\ ext[1] \in TEXT_EXTENSIONS THEN TRUE
      ELSE IF Len(sample) = 0 THEN TRUE
      ELSE nonPrintable * 10 < Len(sample)

\* decodeBase64ToBytes (lines 45-48).
Base64Alphabet ==
  <<"A", "B", "C", "D", "E", "F", "G", "H", "I", "J", "K", "L", "M", "N", "O", "P",
    "Q", "R", "S", "T", "U", "V", "W", "X", "Y", "Z", "a", "b", "c", "d", "e", "f",
    "g", "h", "i", "j", "k", "l", "m", "n", "o", "p", "q", "r", "s", "t", "u", "v",
    "w", "x", "y", "z", "0", "1", "2", "3", "4", "5", "6", "7", "8", "9", "+", "/">>

Base64Value(c) == (CHOOSE i \in 1..64 : Base64Alphabet[i] = c) - 1

RECURSIVE Base64Groups(_)
\* Six-bit values to bytes: four values give three bytes, three give two,
\* two give one.
Base64Groups(sextets) ==
  LET n == Len(sextets)
      v(i) == IF i <= n THEN sextets[i] ELSE 0
      b1 == v(1) * 4 + (v(2) \div 16)
      b2 == (v(2) % 16) * 16 + (v(3) \div 4)
      b3 == (v(3) % 4) * 64 + v(4)
  IN  IF n < 2 THEN <<>>
      ELSE IF n = 2 THEN <<b1>>
      ELSE IF n = 3 THEN <<b1, b2>>
      ELSE <<b1, b2, b3>> \o Base64Groups(SubSeq(sextets, 5, n))

\* Buffer.from(clean, "base64"): the padding carries no bits.
BufferFromBase64(clean) ==
  LET data == SelectSeq(clean, LAMBDA c : c # "=")
  IN  Base64Groups([i \in 1..Len(data) |-> Base64Value(data[i])])

decodeBase64ToBytes(base64) ==
  LET clean == SelectSeq(base64, LAMBDA c : c # "\n")
  IN  BufferFromBase64(clean)

\* new TextDecoder("utf-8", { fatal: false }).decode(bytes): a leading byte
\* order mark is dropped.
TextDecode(bytes) ==
  LET text == Utf8Decode(bytes)
  IN  IF text # <<>> /\ text[1] = 65279 THEN Tail(text) ELSE text

\* "=".repeat(80)
Separator == [i \in 1..80 |-> "="]

\* headerFor (lines 50-53).
headerFor(path) ==
  <<"\n">> \o Separator \o <<"\n">> \o <<"F", "I", "L", "E", ":", " ">> \o path
    \o <<"\n">> \o Separator \o <<"\n">>

\* The code point of "\n".
LineFeed == 10

\* ensureTrailingNewline with the newline appended to every value.
ensureTrailingNewlineAlways(value) == value \o <<LineFeed>>

\* ensureTrailingNewline (lines 55-57) on text as code points.
ensureTrailingNewline(value) ==
  IF value # <<>> /\ value[Len(value)] = LineFeed THEN value
  ELSE value \o <<LineFeed>>

\* ---------------------------------------------------------- exporter.ts
\* A tree entry of the listing: its path, its type, and its size in bytes,
\* NoSize where the listing gives no number.
NoSize == 0 - 1

TreeEntry(path, type, size) == [path |-> path, type |-> type, size |-> size]

TreeEntries ==
  {TreeEntry(<<"a">>, "blob", 1),
   TreeEntry(<<"w", "a">>, "blob", NoSize),
   TreeEntry(<<"a", ".", "t", "s">>, "blob", MAX_TEXT_BLOB_BYTES),
   TreeEntry(<<"a", ".", "p", "n", "g">>, "blob", MAX_TEXT_BLOB_BYTES + 1),
   TreeEntry(<<"w">>, "blob", MAX_TEXT_BLOB_BYTES + 1),
   TreeEntry(<<"o">>, "tree", NoSize)}

\* The listings getTree answers with: up to MaxTree entries, no path twice.
Trees ==
  {t \in SeqsUpTo(TreeEntries, MaxTree) :
     \A i, j \in 1..Len(t) : i # j => t[i] # t[j]}

\* hasSkippedExtension, tabulated once for the paths of the listing.
hasSkippedExtensionAt ==
  [path \in {e.path : e \in TreeEntries} |-> hasSkippedExtension(path)]

\* Line 104: typeof blob.size !== "number" || blob.size <= MAX_TEXT_BLOB_BYTES.
WithinSizeNumbersOnly(blob) == blob.size # NoSize /\ blob.size <= MAX_TEXT_BLOB_BYTES

WithinSize(blob) == blob.size = NoSize \/ blob.size <= MAX_TEXT_BLOB_BYTES

\* Line 113: skippedLarge.
SkippedLargeOfBlobs(blobs, filteredByExtension, eligibleBlobs) ==
  Len(blobs) - Len(eligibleBlobs)

SkippedLarge(blobs, filteredByExtension, eligibleBlobs) ==
  Len(filteredByExtension) - Len(eligibleBlobs)

\* loadRepositoryOutline with the size filter applied before the extension
\* filter.
loadRepositoryOutlineSizeFirst(tree, truncated) ==
  LET blobs == SelectSeq(tree, LAMBDA entry : entry.type = "blob")
      filteredBySize == SelectSeq(blobs, WithinSize)
      eligibleBlobs ==
        SelectSeq(filteredBySize, LAMBDA blob : ~hasSkippedExtensionAt[blob.path])
  IN  [blobs |-> blobs,
       eligibleBlobs |-> eligibleBlobs,
       skippedLarge |-> Len(blobs) - Len(filteredBySize),
       skippedExtension |-> Len(filteredBySize) - Len(eligibleBlobs),
       treeTruncated |-> truncated]

\* loadRepositoryOutline (lines 98-116) on the listing getTree returned.
loadRepositoryOutline(tree, truncated) ==
  LET blobs == SelectSeq(tree, LAMBDA entry : entry.type = "blob")
      filteredByExtension ==
        SelectSeq(blobs, LAMBDA blob : ~hasSkippedExtensionAt[blob.path])
      extensionSkipped == Len(blobs) - Len(filteredByExtension)
      eligibleBlobs == SelectSeq(filteredByExtension, WithinSize)
  IN  [blobs |-> blobs,
       eligibleBlobs |-> eligibleBlobs,
       skippedLarge |-> SkippedLarge(blobs, filteredByExtension, eligibleBlobs),
       skippedExtension |-> extensionSkipped,
       treeTruncated |-> truncated]

NoOutline ==
  [blobs |-> <<>>, eligibleBlobs |-> <<>>, skippedLarge |-> 0,
   skippedExtension |-> 0, treeTruncated |-> FALSE]

\* The collation order of the characters the listing's paths use.
CollationOrder == <<".", "/", "a", "g", "n", "o", "p", "s", "t", "w">>

CharRank(c) == CHOOSE i \in 1..Len(CollationOrder) : CollationOrder[i] = c

RECURSIVE localeCompare(_, _)
\* a.localeCompare(b): negative, zero or positive.
localeCompare(a, b) ==
  IF a = <<>> /\ b = <<>> THEN 0
  ELSE IF a = <<>> THEN 0 - 1
  ELSE IF b = <<>> THEN 1
  ELSE IF CharRank(Head(a)) < CharRank(Head(b)) THEN 0 - 1
  ELSE IF CharRank(Head(a)) > CharRank(Head(b)) THEN 1
  ELSE localeCompare(Tail(a), Tail(b))

RECURSIVE SortedInsert(_, _)
\* blob goes behind every element that does not compare greater than it.
SortedInsert(sortedSoFar, blob) ==
  IF sortedSoFar = <<>> THEN <<blob>>
  ELSE IF localeCompare(Head(sortedSoFar).path, blob.path) <= 0
    THEN <<Head(sortedSoFar)>> \o SortedInsert(Tail(sortedSoFar), blob)
  ELSE <<blob>> \o sortedSoFar

\* The eligible blobs left in the order of the listing.
SortByPathKeepOrder(blobs) == blobs

RECURSIVE SortByPath(_)
\* Lines 134-136: [...eligibleBlobs].sort(localeCompare on path), stable.
SortByPath(blobs) ==
  IF blobs = <<>> THEN <<>>
  ELSE SortedInsert(SortByPath(SubSeq(blobs, 1, Len(blobs) - 1)), blobs[Len(blobs)])

\* What getBlob answers with: a rejection, or an encoding and a content,
\* base64 with the line breaks GitHub puts in.
BlobResponse(ok, encoding, content) ==
  [ok |-> ok, encoding |-> encoding, content |-> content]

BlobResponses ==
  {BlobResponse(FALSE, "none", <<>>),
   BlobResponse(TRUE, "utf-8", <<"a">>),
   BlobResponse(TRUE, "base64", <<"A", "A", "D", "/", "g", "A", "=", "=">>),
   BlobResponse(TRUE, "base64", <<"Q", "c", "O", "p", "\n">>)}

\* decodeBase64ToBytes, tabulated once for those contents.
decodeBase64ToBytesAt ==
  [content \in {b.content : b \in BlobResponses} |-> decodeBase64ToBytes(content)]

\* The OutcomeItem of lines 139-142.
OutcomeItem(kind, path, content) ==
  [kind |-> kind, path |-> path, content |-> content]

\* Line 215 of the reduce: the outcome becomes a file.
CountsAsFileFreshOnly(outcome) == outcome.kind = "included"

CountsAsFile(outcome) == outcome.kind = "included" \/ outcome.kind = "cached"

\* Lines 213-223: the reduce over the outcomes.
CollectOutcome(outcomes) ==
  LET kept == SelectSeq(outcomes, CountsAsFile)
  IN  [files |-> [i \in 1..Len(kept) |->
                    [path |-> kept[i].path, content |-> kept[i].content]],
       skippedBinary |-> Len(outcomes) - Len(kept)]

\* Lines 393-400.
ExportSummary(line, collected) ==
  [included |-> Len(collected.files),
   skippedBinary |-> collected.skippedBinary,
   skippedLarge |-> line.skippedLarge,
   skippedExtension |-> line.skippedExtension,
   total |-> Len(line.blobs),
   truncatedTree |-> line.treeTruncated]

NoSummary ==
  [included |-> 0, skippedBinary |-> 0, skippedLarge |-> 0,
   skippedExtension |-> 0, total |-> 0, truncatedTree |-> FALSE]

VARIABLES
  tree,                 \* the listing getTree answered with
  outline,              \* the RepositoryOutline of the run
  exStage,              \* where exportRepositoryToSingleFile is
  phase,                \* per runner: the await its worker is suspended at
  text,                 \* per runner: the worker's local `text`
  processed,            \* the collector's counter
  events,               \* the onProgress calls, in order
  blobCalls,            \* the paths getBlob was called for, in order
  files,                \* the files the collector returned
  summary,              \* the ExportSummary
  outFile,              \* the artifact at the output path
  finishedSuccessfully, \* line 387
  exResult,             \* how the run's promise settled, and with what
  cleanupRm,            \* history: how rm ended inside cleanupWorkDirectory
  runs,                 \* the number of runs started
  storeChecks,          \* history: the store lookups of the run, path and hit
  doneBefore,           \* history: the paths earlier runs finished processing
  format                \* the output format of the run

exVars ==
  <<tree, outline, exStage, phase, text, processed, events, blobCalls, files,
    summary, outFile, finishedSuccessfully, exResult, cleanupRm, runs,
    storeChecks, doneBefore, format>>

NoResult == [state |-> "pending", summary |-> NoSummary, output |-> "none"]

Artifact(state, pieces) == [state |-> state, pieces |-> pieces]

\* No run was started and the output directory holds no artifact.
ExInit ==
  /\ tree = <<>>
  /\ outline = NoOutline
  /\ exStage = "idle"
  /\ phase = <<>>
  /\ text = <<>>
  /\ processed = 0
  /\ events = <<>>
  /\ blobCalls = <<>>
  /\ files = <<>>
  /\ summary = NoSummary
  /\ outFile = Artifact("absent", 0)
  /\ finishedSuccessfully = FALSE
  /\ exResult = NoResult
  /\ cleanupRm = "none"
  /\ runs = 0
  /\ storeChecks = {}
  /\ doneBefore = {}
  /\ format = "none"

\* loadRepositoryOutline returns for a listing.
LoadOutline(listing, truncated) ==
  /\ exStage = "idle"
  /\ runs < MaxRuns
  /\ runs' = runs + 1
  /\ tree' = listing
  /\ outline' = loadRepositoryOutline(listing, truncated)
  /\ exStage' = "loaded"
  /\ UNCHANGED <<format, storeChecks, doneBefore, phase, text, processed, events, blobCalls, files, summary,
                 outFile, finishedSuccessfully, exResult, cleanupRm>>
  /\ UNCHANGED <<mapVars, ckVars>>

\* The item of a worker that works on the first item whatever it claimed.
CurrentItemFirst(r) == items[1]

\* The item runner r works on.
CurrentItem(r) == items[runners[r].current]

\* Line 416: if (finishedSuccessfully).
CleansUpAlways(finished) == TRUE

CleansUp(finished) == finished

\* The run's promise rejects.
Rejected == [NoResult EXCEPT !.state = "rejected"]

\* A throw inside the try block (lines 388-414): the finally block runs
\* with finishedSuccessfully as it is, and the run rejects, after the
\* cleanup where the finally block awaits one.
RunFails ==
  IF CleansUp(finishedSuccessfully)
    THEN exStage' = "cleaning" /\ UNCHANGED exResult
    ELSE exStage' = "failed" /\ exResult' = Rejected

\* Lines 389-405 once mapWithConcurrency has settled: a rejection leaves
\* through the finally block with finishedSuccessfully false; a result is
\* reduced and summarised, and prepareOutputFile is called.
AfterCollect ==
  IF mapState' = "resolved"
    THEN LET collected == CollectOutcome(returned'[1])
         IN  /\ files' = collected.files
             /\ summary' = ExportSummary(outline, collected)
             /\ exStage' = "preparing"
             /\ UNCHANGED exResult
    ELSE IF mapState' = "rejected" /\ exStage # "failed"
      THEN /\ RunFails
           /\ UNCHANGED <<files, summary>>
    ELSE /\ exStage' = IF exStage = "loaded" THEN "collecting" ELSE exStage
         /\ UNCHANGED <<files, summary, exResult>>

\* exportRepositoryToSingleFile up to the collector's first suspension in
\* the workers: the sort, ensureWorkDirectory, and mapWithConcurrency
\* starting its runners, each of which calls readCachedFile.
ExportStart(outputFormat) ==
  LET sorted == SortByPath(outline.eligibleBlobs)
      ensured == ensureWorkDirectory(fs)
  IN  /\ exStage = "loaded"
      /\ format' = outputFormat
      /\ fs' = ensured.fs
      /\ processed' = 0
      /\ IF ensured.ok
           THEN /\ MapCall(sorted, MAX_CONCURRENCY)
                /\ phase' = [r \in DOMAIN runners' |-> "read"]
                /\ text' = [r \in DOMAIN runners' |-> NoText]
                /\ AfterCollect
           ELSE /\ RunFails
                /\ UNCHANGED <<mapVars, phase, text, files, summary>>
      /\ UNCHANGED <<tree, outline, storeChecks, events, blobCalls, outFile,
                     finishedSuccessfully, cleanupRm, runs, doneBefore>>
      /\ UNCHANGED <<lastOp, lastWritten, cleanupCalled, ckOps>>

\* processed += 1, by the worker of runner r.
ProcessedAfterByPosition(r) == runners[r].current

ProcessedAfter(r) == processed + 1

\* A worker returns an outcome: processed += 1, the progress event, and the
\* runner stores the outcome and claims the next item or returns.
WorkerReturn(r, state, outcome) ==
  /\ processed' = ProcessedAfter(r)
  /\ events' = Append(events, [processed |-> ProcessedAfter(r),
                               total |-> Len(items),
                               path |-> CurrentItem(r).path,
                               state |-> state])
  /\ settled' = Append(settled, [position |-> runners[r].current, ok |-> TRUE])
  /\ RunnerResume(r, outcome)
  /\ phase' = [phase EXCEPT ![r] = IF runners'[r].pc = "awaiting" THEN "read"
                                                                  ELSE "done"]
  /\ text' = [text EXCEPT ![r] = NoText]
  /\ AfterCollect
  /\ UNCHANGED <<items, limit>>

\* A worker's awaited call rejects: the worker, and with it the runner, throws.
WorkerThrow(r) ==
  /\ settled' = Append(settled, [position |-> runners[r].current, ok |-> FALSE])
  /\ RunnerThrow(r)
  /\ phase' = [phase EXCEPT ![r] = "done"]
  /\ text' = [text EXCEPT ![r] = NoText]
  /\ AfterCollect
  /\ UNCHANGED <<items, limit, processed, events>>

\* A worker goes from one await to its next one.
WorkerAwait(r, next, local) ==
  /\ phase' = [phase EXCEPT ![r] = next]
  /\ text' = [text EXCEPT ![r] = local]
  /\ UNCHANGED <<mapVars, processed, events, files, summary, exStage, exResult>>

\* The worker of runner r is suspended at the await named.
WorkerAt(r, await) ==
  /\ r \in DOMAIN runners
  /\ runners[r].pc = "awaiting"
  /\ phase[r] = await

\* looksTexty, tabulated once for the blobs' paths and decoded contents.
looksTextyAt ==
  [path \in BlobPaths |->
     [content \in DOMAIN decodeBase64ToBytesAt |->
        looksTexty(path, decodeBase64ToBytesAt[content])]]

\* The store holds an entry for the path: a regular file at its location.
HasEntry(store, filePath) ==
  /\ ResolvedAt[filePath].ok
  /\ IsFile(store, ResolvedAt[filePath].full)

\* Line 151: cachedContent !== null.
IsCacheHitNever(cachedContent) == FALSE

IsCacheHit(cachedContent) == cachedContent # None

\* Lines 150-170: readCachedFile settles; a hit returns the cached outcome,
\* a miss calls getBlob.
WorkerRead(r) ==
  LET item == CurrentItem(r)
      result == readCachedFile(fs, item.path)
  IN  /\ WorkerAt(r, "read")
      /\ fs' = result.fs
      /\ storeChecks' = storeChecks \cup {[path |-> item.path,
                                           hit |-> HasEntry(fs, item.path)]}
      /\ IF result.outcome # "ok"
           THEN WorkerThrow(r) /\ UNCHANGED blobCalls
           ELSE IF IsCacheHit(result.value)
             THEN /\ WorkerReturn(r, "cached",
                                  OutcomeItem("cached", item.path, result.value[1]))
                  /\ UNCHANGED blobCalls
           ELSE /\ WorkerAwait(r, "blob", NoText)
                /\ blobCalls' = Append(blobCalls, item.path)
      /\ UNCHANGED <<tree, outline, format, outFile, finishedSuccessfully, cleanupRm, runs, doneBefore>>
      /\ UNCHANGED <<lastOp, lastWritten, cleanupCalled, ckOps>>

\* Lines 166-196: getBlob settles; the blob is skipped, or decoded and handed
\* to writeCachedFile.
WorkerBlob(r, response) ==
  LET item == CurrentItem(r)
      skipped == OutcomeItem("skipped", item.path, NoText)
  IN  /\ WorkerAt(r, "blob")
      /\ IF ~response.ok
           THEN WorkerThrow(r)
           ELSE IF response.encoding # "base64"
             THEN WorkerReturn(r, "skipped", skipped)
           ELSE IF ~looksTextyAt[item.path][response.content]
             THEN WorkerReturn(r, "skipped", skipped)
           ELSE WorkerAwait(r, "write",
                            TextDecode(decodeBase64ToBytesAt[response.content]))
      /\ UNCHANGED <<tree, outline, format, storeChecks, blobCalls, outFile, finishedSuccessfully,
                     cleanupRm, runs, doneBefore>>
      /\ UNCHANGED ckVars

\* Lines 196-209: writeCachedFile settles.
WorkerWrite(r) ==
  LET item == CurrentItem(r)
      result == writeCachedFile(fs, item.path, text[r])
  IN  /\ WorkerAt(r, "write")
      /\ fs' = result.fs
      /\ IF result.outcome # "ok"
           THEN WorkerThrow(r) /\ UNCHANGED lastWritten
           ELSE /\ WorkerReturn(r, "included",
                                OutcomeItem("included", item.path, text[r]))
                /\ lastWritten' = Written(lastWritten, ResolvedAt[item.path].full,
                                          text[r])
      /\ UNCHANGED <<tree, outline, format, storeChecks, blobCalls, outFile, finishedSuccessfully,
                     cleanupRm, runs, doneBefore>>
      /\ UNCHANGED <<lastOp, cleanupCalled, ckOps>>

\* Lines 389-402: prepareOutputFile is called after `await
\* collectTextFiles(...)` has returned.
CollectorNotAwaited(stage) == stage \in {"collecting", "preparing"}

CollectorAwaited(stage) == stage = "preparing"

\* prepareOutputFile (io.ts lines 23-34): mkdir of OUT_DIR, the earlier
\* artifact removed, the write stream created.
PrepareOutput(mkdirOk) ==
  /\ CollectorAwaited(exStage)
  /\ IF mkdirOk
       THEN /\ outFile' = Artifact("open", 0)
            /\ exStage' = IF format = "pdf" THEN "rendering" ELSE "writing"
            /\ UNCHANGED exResult
       ELSE RunFails /\ UNCHANGED outFile
  /\ UNCHANGED <<tree, outline, format, storeChecks, phase, text, processed, events, blobCalls, files,
                 summary, finishedSuccessfully, cleanupRm, runs, doneBefore>>
  /\ UNCHANGED <<mapVars, ckVars>>

\* exportToPdf up to the end of renderPdfFromText (lines 291-330): the
\* document is rendered in memory, and a throw of the renderer or of a
\* progress callback rejects the run with the stream opened and unwritten.
ExportRender(ok) ==
  /\ exStage = "rendering"
  /\ IF ok
       THEN /\ exStage' = "writing"
            /\ UNCHANGED <<exResult, outFile>>
       ELSE /\ outFile' = Artifact("partial", 0)
            /\ RunFails
  /\ UNCHANGED <<tree, outline, format, storeChecks, phase, text, processed,
                 events, blobCalls, files, summary, finishedSuccessfully,
                 cleanupRm, runs, doneBefore>>
  /\ UNCHANGED <<mapVars, ckVars>>

\* The pieces written: exportToText writes the header, one piece per file
\* and the footer; exportToPdf writes the buffer, one chunk for a document
\* of this size, and ends the stream.
PieceCount == IF format = "pdf" THEN 2 ELSE Len(files) + 2

\* exportToText (lines 258-282) and the write loop of exportToPdf (lines
\* 342-369), one piece written per step; the last one closes the stream, and
\* line 413 and the finally block follow.
ExportWrite(ok) ==
  /\ exStage = "writing"
  /\ IF ~ok
       THEN /\ outFile' = Artifact("partial", outFile.pieces)
            /\ RunFails
            /\ UNCHANGED finishedSuccessfully
       ELSE IF outFile.pieces + 1 < PieceCount
         THEN /\ outFile' = Artifact("open", outFile.pieces + 1)
              /\ UNCHANGED <<exStage, exResult, finishedSuccessfully>>
       ELSE /\ outFile' = Artifact("complete", PieceCount)
            /\ finishedSuccessfully' = TRUE
            /\ exStage' = "cleaning"
            /\ UNCHANGED exResult
  /\ UNCHANGED <<tree, outline, format, storeChecks, phase, text, processed, events, blobCalls, files,
                 summary, cleanupRm, runs, doneBefore>>
  /\ UNCHANGED <<mapVars, ckVars>>

\* Lines 414-419: cleanupWorkDirectory settles inside the finally block, and
\* the run's promise settles: with the result of line 414, or with the
\* rejection of the try block or of the awaited cleanup.
ExportCleanup(rmOk, removed) ==
  LET result == cleanupWorkDirectory(fs, rmOk, removed)
  IN  /\ exStage = "cleaning"
      /\ fs' = result.fs
      /\ cleanupCalled' = TRUE
      /\ cleanupRm' = IF rmOk THEN "ok" ELSE "failed"
      /\ lastWritten' =
           IF rmOk THEN NoFiles
           ELSE [q \in DOMAIN lastWritten \ removed |-> lastWritten[q]]
      /\ IF result.outcome = "ok" /\ finishedSuccessfully
           THEN /\ exStage' = "done"
                /\ exResult' = [state |-> "returned", summary |-> summary,
                                output |-> outFile.state]
           ELSE exStage' = "failed" /\ exResult' = Rejected
      /\ UNCHANGED <<tree, outline, format, storeChecks, phase, text, processed, events, blobCalls,
                     files, summary, outFile, finishedSuccessfully, runs, doneBefore>>
      /\ UNCHANGED <<mapVars, lastOp, ckOps>>

\* The program is started again after a run failed: a new process, with the
\* output directory as the failed run left it.
Rerun ==
  /\ exStage = "failed"
  /\ runs < MaxRuns
  /\ exStage' = "idle"
  /\ tree' = <<>>
  /\ outline' = NoOutline
  /\ phase' = <<>>
  /\ text' = <<>>
  /\ processed' = 0
  /\ events' = <<>>
  /\ blobCalls' = <<>>
  /\ files' = <<>>
  /\ summary' = NoSummary
  /\ finishedSuccessfully' = FALSE
  /\ exResult' = NoResult
  /\ cleanupRm' = "none"
  /\ storeChecks' = {}
  /\ doneBefore' = doneBefore \cup {events[i].path : i \in 1..Len(events)}
  /\ format' = "none"
  /\ items' = <<>>
  /\ limit' = 1
  /\ index' = 0
  /\ results' = <<>>
  /\ runners' = <<>>
  /\ mapState' = "idle"
  /\ mapError' = NoError
  /\ returned' = None
  /\ calls' = <<>>
  /\ settled' = <<>>
  /\ UNCHANGED <<outFile, runs>>
  /\ UNCHANGED ckVars

\* ---------------------------------------------------------------- pdf.ts
\* A string is the sequence of its UTF-16 code units, as numbers.
PAGE_WIDTH == 612

PAGE_HEIGHT == 792

LEFT_MARGIN == 40

TOP_MARGIN == 48

BOTTOM_MARGIN == 48

FONT_SIZE == 10

LINE_HEIGHT == 12

RECURSIVE toString(_)
\* Number.prototype.toString of a natural number: its decimal digits.
toString(n) ==
  IF n < 10 THEN <<48 + n>> ELSE toString(n \div 10) \o <<48 + (n % 10)>>

\* Line 33.
usableHeight == PAGE_HEIGHT - TOP_MARGIN - BOTTOM_MARGIN

\* Line 34 with only the top margin taken off the page.
maxLinesPerPageBelowTop ==
  Max(1, (PAGE_HEIGHT - TOP_MARGIN) \div LINE_HEIGHT)

\* Line 34.
maxLinesPerPage == Max(1, usableHeight \div LINE_HEIGHT)

\* Array.prototype.slice(from, to) with 0 <= from <= to.
slice(array, from, to) == SubSeq(array, from + 1, Min(to, Len(array)))

RECURSIVE SplitLoop(_, _)
\* Lines 36-38: the pages pushed from position i on.
SplitLoop(array, i) ==
  IF i < Len(array)
    THEN <<slice(array, i, i + maxLinesPerPage)>>
           \o SplitLoop(array, i + maxLinesPerPage)
    ELSE <<>>

\* splitIntoPages (lines 32-43).
splitIntoPages(array) ==
  LET pushed == SplitLoop(array, 0)
  IN  IF Len(pushed) = 0 THEN << << <<>> >> >> ELSE pushed

\* Line 25: a backslash is doubled.
EscapeBackslash(unit) == IF unit = 92 THEN <<92, 92>> ELSE <<unit>>

\* Line 26: "(" gets a backslash.
EscapeOpen(unit) == IF unit = 40 THEN <<92, 40>> ELSE <<unit>>

\* Line 27: ")" gets a backslash.
EscapeClose(unit) == IF unit = 41 THEN <<92, 41>> ELSE <<unit>>

\* Line 28: a carriage return or a tab becomes a space.
BlankControl(unit) == IF unit \in {13, 9} THEN <<32>> ELSE <<unit>>

\* Line 29: the other control characters but the line feed are removed.
DropControl(unit) ==
  IF unit \in (0..8) \cup {11, 12} \cup (14..31) THEN <<>> ELSE <<unit>>

\* What the replace call of the line given (25 to 29) puts for a code unit.
ReplaceUnit(sourceLine, unit) ==
  CASE sourceLine = 25 -> EscapeBackslash(unit)
    [] sourceLine = 26 -> EscapeOpen(unit)
    [] sourceLine = 27 -> EscapeClose(unit)
    [] sourceLine = 28 -> BlankControl(unit)
    [] sourceLine = 29 -> DropControl(unit)

RECURSIVE replace(_, _)
\* String.prototype.replace with a /g pattern of one character, as the call
\* of the line given makes it: every code unit is replaced on its own.
replace(string, sourceLine) ==
  IF string = <<>> THEN <<>>
  ELSE ReplaceUnit(sourceLine, Head(string)) \o replace(Tail(string), sourceLine)

\* escapePdfText (lines 23-30).
escapePdfText(line) ==
  replace(replace(replace(replace(replace(line, 25), 26), 27), 28), 29)

RECURSIVE join(_, _)
\* Array.prototype.join.
join(strings, separator) ==
  IF strings = <<>> THEN <<>>
  ELSE IF Len(strings) = 1 THEN strings[1]
  ELSE strings[1] \o separator \o join(Tail(strings), separator)

\* Line 49: "(" escaped line ") Tj\nT*"
ShowLine(line) ==
  <<40>> \o escapePdfText(line) \o <<41, 32, 84, 106, 10, 84, 42>>

\* buildContentStream (lines 45-52):
\* "BT\n/F1 10 Tf\n1 0 0 1 40 744 Tm\n12 TL" "\n" body "\nET"
buildContentStream(array) ==
  LET startY == PAGE_HEIGHT - TOP_MARGIN
      header == <<66, 84, 10, 47, 70, 49, 32>> \o toString(FONT_SIZE)
                  \o <<32, 84, 102, 10, 49, 32, 48, 32, 48, 32, 49, 32>>
                  \o toString(LEFT_MARGIN) \o <<32>> \o toString(startY)
                  \o <<32, 84, 109, 10>> \o toString(LINE_HEIGHT)
                  \o <<32, 84, 76>>
      body == join([i \in 1..Len(array) |-> ShowLine(array[i])], <<10>>)
  IN  header \o <<10>> \o body \o <<10, 69, 84>>

IsHighSurrogate(unit) == unit >= 55296 /\ unit <= 56319

IsLowSurrogate(unit) == unit >= 56320 /\ unit <= 57343

\* The code point the string holds at position i, 0 at the second half of
\* a surrogate pair; a surrogate without its pair is U+FFFD.
CodePointAt(string, i) ==
  LET unit == string[i]
  IN  IF IsHighSurrogate(unit)
        THEN IF i < Len(string) /\ IsLowSurrogate(string[i + 1])
               THEN 65536 + (unit - 55296) * 1024 + (string[i + 1] - 56320)
               ELSE 65533
      ELSE IF IsLowSurrogate(unit)
        THEN IF i > 1 /\ IsHighSurrogate(string[i - 1]) THEN 0 ELSE 65533
      ELSE unit

\* The UTF-8 bytes of the position i of the string.
Utf8At(string, i) ==
  LET cp == CodePointAt(string, i)
  IN  IF IsLowSurrogate(string[i]) /\ cp = 0 THEN <<>>
      ELSE IF cp < 128 THEN <<cp>>
      ELSE IF cp < 2048 THEN <<192 + (cp \div 64), 128 + (cp % 64)>>
      ELSE IF cp < 65536
        THEN <<224 + (cp \div 4096), 128 + ((cp \div 64) % 64), 128 + (cp % 64)>>
      ELSE <<240 + (cp \div 262144), 128 + ((cp \div 4096) % 64),
             128 + ((cp \div 64) % 64), 128 + (cp % 64)>>

RECURSIVE Utf8Between(_, _, _)
\* The UTF-8 bytes of the positions from..to of the string.
Utf8Between(string, from, to) ==
  IF from > to THEN <<>>
  ELSE IF from = to THEN Utf8At(string, from)
  ELSE LET mid == (from + to) \div 2
       IN  Utf8Between(string, from, mid) \o Utf8Between(string, mid + 1, to)

\* Buffer.from(string, "utf8").
BufferFrom(string) == Utf8Between(string, 1, Len(string))

\* The number of UTF-8 bytes of the position i of the string.
Utf8LengthAt(string, i) ==
  LET unit == string[i]
  IN  IF unit < 128 THEN 1
      ELSE IF unit < 2048 THEN 2
      ELSE IF IsHighSurrogate(unit)
        THEN IF i < Len(string) /\ IsLowSurrogate(string[i + 1]) THEN 4 ELSE 3
      ELSE IF IsLowSurrogate(unit)
        THEN IF i > 1 /\ IsHighSurrogate(string[i - 1]) THEN 0 ELSE 3
      ELSE 3

RECURSIVE Utf8LengthBetween(_, _, _)
Utf8LengthBetween(string, from, to) ==
  IF from > to THEN 0
  ELSE IF from = to THEN Utf8LengthAt(string, from)
  ELSE LET mid == (from + to) \div 2
       IN  Utf8LengthBetween(string, from, mid)
             + Utf8LengthBetween(string, mid + 1, to)

\* The length of the string in code units, in place of its bytes.
byteLengthInUnits(string) == Len(string)

\* Buffer.byteLength(string, "utf8").
byteLength(string) == Utf8LengthBetween(string, 1, Len(string))

\* String.prototype.padStart(width, "0").
padStart(string, width) ==
  [i \in 1..(width - Len(string)) |-> 48] \o string

\* `null`, the content of an object created and not yet set.
NullObject == <<0 - 1>>

\* Lines 70-77: the numbers createObject returned, for a document of count
\* pages; the page's position idx is 0-based.
fontObject == 1

contentObjects(count, idx) == fontObject + 1 + idx

pageObjects(count, idx) == fontObject + count + 1 + idx

pagesObject(count) == fontObject + 2 * count + 1

catalogObject(count) == fontObject + 2 * count + 2

\* Lines 70-77: the objects array once every object is created.
CreatedObjects(count) ==
  LET
      \* "<< /Type /Font /Subtype /Type1 /BaseFont /Helvetica >>"
      FontContent == <<60, 60, 32, 47, 84, 121, 112, 101, 32, 47, 70, 111,
        110, 116, 32, 47, 83, 117, 98, 116, 121, 112, 101, 32, 47, 84, 121,
        112, 101, 49, 32, 47, 66, 97, 115, 101, 70, 111, 110, 116, 32, 47,
        72, 101, 108, 118, 101, 116, 105, 99, 97, 32, 62, 62>>
  IN  [id \in 1..catalogObject(count) |->
         IF id = fontObject THEN FontContent ELSE NullObject]

\* setObject (lines 66-68).
setObject(array, id, content) == [array EXCEPT ![id] = content]

\* Lines 80-86: the iteration idx of the loop over the pages.
WithContentStream(array, pageList, idx) ==
  LET stream == buildContentStream(pageList[idx + 1])
      buffer == BufferFrom(stream)
      \* "<< /Length "
      LengthOpen == <<60, 60, 32, 47, 76, 101, 110, 103, 116, 104, 32>>
      \* " >>\nstream\n"
      StreamOpen == <<32, 62, 62, 10, 115, 116, 114, 101, 97, 109, 10>>
      \* "\nendstream"
      StreamClose == <<10, 101, 110, 100, 115, 116, 114, 101, 97, 109>>
  IN  setObject(array, contentObjects(Len(pageList), idx),
                LengthOpen \o toString(Len(buffer)) \o StreamOpen
                  \o stream \o StreamClose)

\* Line 93.
Kids(count) ==
  LET
      \* " 0 R"
      Reference == <<32, 48, 32, 82>>
  IN  join([i \in 1..count |->
              toString(pageObjects(count, i - 1)) \o Reference], <<32>>)

\* Line 103.
PageContent(count, idx) ==
  LET
      \* "<< /Type /Page /Parent "
      PageOpen == <<60, 60, 32, 47, 84, 121, 112, 101, 32, 47, 80, 97, 103,
        101, 32, 47, 80, 97, 114, 101, 110, 116, 32>>
      \* " 0 R /Resources << /Font << /F1 "
      PageResources == <<32, 48, 32, 82, 32, 47, 82, 101, 115, 111, 117,
        114, 99, 101, 115, 32, 60, 60, 32, 47, 70, 111, 110, 116, 32, 60,
        60, 32, 47, 70, 49, 32>>
      \* " 0 R >> >> /MediaBox [0 0 "
      PageMediaBox == <<32, 48, 32, 82, 32, 62, 62, 32, 62, 62, 32, 47, 77,
        101, 100, 105, 97, 66, 111, 120, 32, 91, 48, 32, 48, 32>>
      \* "] /Contents "
      PageContents == <<93, 32, 47, 67, 111, 110, 116, 101, 110, 116, 115,
        32>>
      \* " 0 R >>"
      PageClose == <<32, 48, 32, 82, 32, 62, 62>>
  IN  PageOpen \o toString(pagesObject(count)) \o PageResources
        \o toString(fontObject) \o PageMediaBox \o toString(PAGE_WIDTH)
        \o <<32>> \o toString(PAGE_HEIGHT) \o PageContents
        \o toString(contentObjects(count, idx)) \o PageClose

\* Lines 99-105 setting the first page's object and no other.
WithPagesFirstOnly(array, count, idx) ==
  setObject(array, pageObjects(count, 0), PageContent(count, 0))

RECURSIVE WithPages(_, _, _)
\* Lines 99-105: pageObjects.forEach from position idx on.
WithPages(array, count, idx) ==
  IF idx >= count THEN array
  ELSE WithPages(setObject(array, pageObjects(count, idx),
                           PageContent(count, idx)),
                 count, idx + 1)

\* Lines 93-107: the pages object, the page objects and the catalog.
WithStructure(array, count) ==
  LET
      \* "<< /Type /Pages /Count "
      PagesOpen == <<60, 60, 32, 47, 84, 121, 112, 101, 32, 47, 80, 97, 103,
        101, 115, 32, 47, 67, 111, 117, 110, 116, 32>>
      \* " /Kids ["
      PagesKids == <<32, 47, 75, 105, 100, 115, 32, 91>>
      \* "] >>"
      PagesClose == <<93, 32, 62, 62>>
      \* "<< /Type /Catalog /Pages "
      CatalogOpen == <<60, 60, 32, 47, 84, 121, 112, 101, 32, 47, 67, 97,
        116, 97, 108, 111, 103, 32, 47, 80, 97, 103, 101, 115, 32>>
      \* " 0 R >>" after the pages object
      CatalogClose == <<32, 48, 32, 82, 32, 62, 62>>
      withPagesObject ==
        setObject(array, pagesObject(count),
                  PagesOpen \o toString(count) \o PagesKids \o Kids(count)
                    \o PagesClose)
      withPageObjects == WithPages(withPagesObject, count, 0)
  IN  setObject(withPageObjects, catalogObject(count),
                CatalogOpen \o toString(pagesObject(count)) \o CatalogClose)

RECURSIVE WriteObjects(_, _, _)
\* Lines 112-118: objects.forEach from position idx on, with the document
\* written so far and the offsets recorded so far; it throws at an object
\* that is still null.
WriteObjects(array, idx, sofar) ==
  LET
      \* " 0 obj\n"
      ObjOpen == <<32, 48, 32, 111, 98, 106, 10>>
      \* "\nendobj\n"
      ObjClose == <<10, 101, 110, 100, 111, 98, 106, 10>>
  IN  IF idx >= Len(array) THEN [sofar EXCEPT !.ok = TRUE]
      ELSE IF array[idx + 1] = NullObject THEN [sofar EXCEPT !.ok = FALSE]
      ELSE WriteObjects(array, idx + 1,
             [ok |-> TRUE,
              offsets |-> Append(sofar.offsets, byteLength(sofar.pdf)),
              pdf |-> sofar.pdf \o toString(idx + 1) \o ObjOpen
                        \o array[idx + 1] \o ObjClose])

\* Lines 122-124.
XrefEntries(recorded) ==
  LET
      \* " 00000 n \n"
      XrefInUse == <<32, 48, 48, 48, 48, 48, 32, 110, 32, 10>>
  IN  join([i \in 1..Len(recorded) |->
              padStart(toString(recorded[i]), 10) \o XrefInUse], <<>>)

\* Lines 109-127 for the objects all set: the offsets recorded, the offset
\* of the cross-reference table and the bytes returned.
Assemble(array, count) ==
  LET
      \* "%PDF-1.4\n"
      PdfHeader == <<37, 80, 68, 70, 45, 49, 46, 52, 10>>
      \* "xref\n0 "
      XrefOpen == <<120, 114, 101, 102, 10, 48, 32>>
      \* "\n0000000000 65535 f \n"
      XrefFree == <<10, 48, 48, 48, 48, 48, 48, 48, 48, 48, 48, 32, 54, 53,
        53, 51, 53, 32, 102, 32, 10>>
      \* "trailer\n<< /Size "
      TrailerOpen == <<116, 114, 97, 105, 108, 101, 114, 10, 60, 60, 32, 47,
        83, 105, 122, 101, 32>>
      \* " /Root "
      TrailerRoot == <<32, 47, 82, 111, 111, 116, 32>>
      \* " 0 R >>\nstartxref\n"
      TrailerStartxref == <<32, 48, 32, 82, 32, 62, 62, 10, 115, 116, 97,
        114, 116, 120, 114, 101, 102, 10>>
      \* "\n%%EOF"
      TrailerEnd == <<10, 37, 37, 69, 79, 70>>
      written == WriteObjects(array, 0,
                   [ok |-> TRUE, offsets |-> <<>>, pdf |-> PdfHeader])
      xref == byteLength(written.pdf)
      pdf == written.pdf
               \o XrefOpen \o toString(Len(array) + 1) \o XrefFree
               \o XrefEntries(written.offsets)
               \o TrailerOpen \o toString(Len(array) + 1) \o TrailerRoot
               \o toString(catalogObject(count)) \o TrailerStartxref
               \o toString(xref) \o TrailerEnd
  IN  [ok |-> written.ok, offsets |-> written.offsets, xrefOffset |-> xref,
       buffer |-> IF written.ok THEN BufferFrom(pdf) ELSE <<>>]

VARIABLES
  pdfStage,   \* where the rendering is
  lines,      \* the lines to render
  pages,      \* what splitIntoPages returned
  objects,    \* `const objects` of createPdfBuffers
  loopIdx,    \* `idx` of the loop over the pages (line 79)
  reports,    \* the onProgress calls, in order
  offsets,    \* `const offsets`
  xrefOffset, \* `const xrefOffset`
  pdfBuffer,  \* the Buffer createPdfBuffers returned
  pdfText,    \* the text to render (`combined` of exportToPdf)
  estimatedPages  \* `estimatedPages` of exportToPdf, 0 before line 300

pdfVars ==
  <<pdfStage, lines, pages, objects, loopIdx, reports, offsets, xrefOffset,
    pdfBuffer, pdfText, estimatedPages>>

rendererVars ==
  <<objects, loopIdx, reports, offsets, xrefOffset, pdfBuffer, pdfText,
    estimatedPages>>

PdfInit ==
  /\ pdfStage = "idle"
  /\ lines = <<>>
  /\ pages = <<>>
  /\ objects = <<>>
  /\ loopIdx = 0
  /\ reports = <<>>
  /\ offsets = <<>>
  /\ xrefOffset = 0
  /\ pdfBuffer = <<>>
  /\ pdfText = <<>>
  /\ estimatedPages = 0

\* The lines 1, 2, ..., n, each holding its number.
NumberedLines(n) == [i \in 1..n |-> toString(i)]

\* A call of splitIntoPages.
SplitPages ==
  /\ pdfStage = "lines"
  /\ pages' = splitIntoPages(lines)
  /\ pdfStage' = "pages"
  /\ UNCHANGED <<lines, rendererVars>>

\* Line 87 with the loop's idx reported in place of idx + 1.
PdfProgressFromZero(processedPages, total) ==
  [processed |-> processedPages - 1, total |-> total]

\* Line 87.
PdfProgress(processedPages, total) ==
  [processed |-> processedPages, total |-> total]

RECURSIVE WithoutCrBeforeLf(_, _, _)
\* The positions from..to of the string, less each "\r" that a "\n" follows.
WithoutCrBeforeLf(string, from, to) ==
  IF from > to THEN <<>>
  ELSE IF from = to
    THEN IF string[from] = 13 /\ from < Len(string) /\ string[from + 1] = 10
           THEN <<>> ELSE <<string[from]>>
  ELSE LET mid == (from + to) \div 2
       IN  WithoutCrBeforeLf(string, from, mid)
             \o WithoutCrBeforeLf(string, mid + 1, to)

\* text.replace(/\r\n/g, "\n") (lines 131 and 139).
replaceCrLf(string) == WithoutCrBeforeLf(string, 1, Len(string))

\* Either of "\r" and "\n" taken for a line break.
replaceCr(string) == [i \in 1..Len(string) |-> IF string[i] = 13 THEN 10 ELSE string[i]]

RECURSIVE BreaksBetween(_, _, _)
\* The positions of "\n" among the positions from..to of the string.
BreaksBetween(string, from, to) ==
  IF from > to THEN <<>>
  ELSE IF from = to THEN (IF string[from] = 10 THEN <<from>> ELSE <<>>)
  ELSE LET mid == (from + to) \div 2
       IN  BreaksBetween(string, from, mid) \o BreaksBetween(string, mid + 1, to)

\* String.prototype.split("\n"): what stands before, between and after the
\* line feeds; the empty string gives one empty line.
split(string) ==
  LET breaks == <<0>> \o BreaksBetween(string, 1, Len(string))
                  \o <<Len(string) + 1>>
  IN  [k \in 1..(Len(breaks) - 1) |->
         SubSeq(string, breaks[k] + 1, breaks[k + 1] - 1)]

\* estimatePdfPageCount with a lone carriage return counted as a line break.
estimatePdfPageCountCrBreaks(string) ==
  Len(splitIntoPages(split(replaceCr(string))))

\* estimatePdfPageCount (lines 130-133).
estimatePdfPageCount(string) ==
  Len(splitIntoPages(split(replaceCrLf(string))))

\* exportToPdf, line 300: the page count handed to pdfProgress.initialise
\* as renderTotal before the text is rendered.
EstimatePages ==
  /\ pdfStage = "text"
  /\ estimatedPages' = Max(estimatePdfPageCount(pdfText), 1)
  /\ pdfStage' = "estimated"
  /\ UNCHANGED <<lines, pages, objects, loopIdx, reports, offsets, xrefOffset,
                 pdfBuffer, pdfText>>

\* renderPdfFromText (lines 139-141) on the text, and createPdfBuffers up
\* to the first setImmediate (lines 58-89): the objects are created and the
\* first page's content stream is set.
RenderStart ==
  LET array == split(replaceCrLf(pdfText))
      pageList == splitIntoPages(array)
  IN  /\ pdfStage \in {"text", "estimated"}
      /\ lines' = array
      /\ pages' = pageList
      /\ objects' = WithContentStream(CreatedObjects(Len(pageList)), pageList, 0)
      /\ loopIdx' = 0
      /\ reports' = <<PdfProgress(1, Len(pageList))>>
      /\ pdfStage' = "rendering"
      /\ UNCHANGED <<offsets, xrefOffset, pdfBuffer, pdfText, estimatedPages>>

\* Lines 79-89 after a setImmediate: the loop goes on with the next page.
RenderNextPage ==
  /\ pdfStage = "rendering"
  /\ loopIdx + 1 < Len(pages)
  /\ loopIdx' = loopIdx + 1
  /\ objects' = WithContentStream(objects, pages, loopIdx + 1)
  /\ reports' = Append(reports, PdfProgress(loopIdx + 2, Len(pages)))
  /\ UNCHANGED <<pdfStage, lines, pages, offsets, xrefOffset, pdfBuffer,
                 pdfText, estimatedPages>>

\* Lines 79 and 93-127 after the last setImmediate: the loop ends, the
\* remaining objects are set and the document is assembled.
RenderFinish ==
  LET assembled == Assemble(WithStructure(objects, Len(pages)), Len(pages))
  IN  /\ pdfStage = "rendering"
      /\ ~(loopIdx + 1 < Len(pages))
      /\ loopIdx' = loopIdx + 1
      /\ objects' = WithStructure(objects, Len(pages))
      /\ offsets' = assembled.offsets
      /\ xrefOffset' = assembled.xrefOffset
      /\ pdfBuffer' = assembled.buffer
      /\ pdfStage' = IF assembled.ok THEN "rendered" ELSE "failed"
      /\ UNCHANGED <<lines, pages, reports, pdfText, estimatedPages>>

\* ------------------------------------------ io.ts: PdfProgressReporter
\* Lines 82-85.
DEFAULT_STAGE_STATE == [processed |-> 0, total |-> 0]

\* The reporter as constructed (lines 100-108).
NewReporter ==
  [stageState |-> [render |-> DEFAULT_STAGE_STATE, write |-> DEFAULT_STAGE_STATE],
   currentStage |-> "render",
   started |-> FALSE]

\* updateStageState (lines 145-153) storing processed as it is reported.
updateStageStateUnbounded(reporter, stage, processedNow, total) ==
  [reporter EXCEPT !.stageState[stage] =
     [processed |-> processedNow, total |-> Max(total, 0)]]

\* updateStageState (lines 145-153).
updateStageState(reporter, stage, processedNow, total) ==
  LET safeTotal == Max(total, 0)
      boundedProcessed == Min(Max(processedNow, 0), safeTotal)
  IN  [reporter EXCEPT !.stageState[stage] =
         [processed |-> boundedProcessed, total |-> safeTotal]]

\* aggregateProcessed (lines 163-167) counting the current stage alone.
aggregateProcessedOfCurrentStage(reporter) ==
  reporter.stageState[reporter.currentStage].processed

\* aggregateProcessed (lines 163-167).
aggregateProcessed(reporter) ==
  reporter.stageState.render.processed + reporter.stageState.write.processed

\* aggregateTotal (lines 155-161) without the floor of line 160.
aggregateTotalOfStages(reporter) ==
  reporter.stageState.render.total + reporter.stageState.write.total

\* aggregateTotal (lines 155-161).
aggregateTotal(reporter) ==
  LET total == reporter.stageState.render.total + reporter.stageState.write.total
      processedNow == reporter.stageState.render.processed
                        + reporter.stageState.write.processed
  IN  Max(Max(total, processedNow), 1)

\* publish (lines 169-183): the call of sink.update.
publish(reporter) ==
  [call |-> "update",
   processed |-> aggregateProcessed(reporter),
   total |-> aggregateTotal(reporter),
   path |-> reporter.currentStage]

\* sink.start(total, "Generating PDF") and sink.finish().
SinkStart(total) ==
  [call |-> "start", processed |-> 0, total |-> total, path |-> "render"]

SinkFinish ==
  [call |-> "finish", processed |-> 0, total |-> 0, path |-> "render"]

\* initialise (lines 111-123); writeTotal is None where the caller left it
\* out. The reporter it leaves and the calls it makes on the sink.
initialise(reporter, renderTotal, writeTotal) ==
  LET safeRenderTotal == Max(renderTotal, 0)
      safeWriteTotal == Max(IF writeTotal = None THEN 0 ELSE writeTotal[1], 0)
      after == [stageState |->
                  [render |-> [DEFAULT_STAGE_STATE EXCEPT !.total = safeRenderTotal],
                   write |-> [DEFAULT_STAGE_STATE EXCEPT !.total = safeWriteTotal]],
                currentStage |-> "render",
                started |-> TRUE]
  IN  [reporter |-> after,
       calls |-> <<SinkStart(aggregateTotal(after)), publish(after)>>]

\* report (lines 125-133) without the initialise of lines 126-128.
reportWithoutInitialise(reporter, stage, processedNow, total) ==
  LET updated == updateStageState(reporter, stage, processedNow, total)
      after == [updated EXCEPT !.currentStage = stage]
  IN  [reporter |-> after, calls |-> <<publish(after)>>]

\* report (lines 125-133).
report(reporter, stage, processedNow, total) ==
  LET first == IF ~reporter.started
                 THEN initialise(reporter, total, Some(0))
                 ELSE [reporter |-> reporter, calls |-> <<>>]
      updated == updateStageState(first.reporter, stage, processedNow, total)
      after == [updated EXCEPT !.currentStage = stage]
  IN  [reporter |-> after, calls |-> Append(first.calls, publish(after))]

\* complete (lines 135-143) without line 142: started stays true.
completeStayingStarted(reporter) ==
  IF ~reporter.started THEN [reporter |-> reporter, calls |-> <<>>]
  ELSE LET forced ==
             [reporter EXCEPT
                !.stageState.render.processed = reporter.stageState.render.total,
                !.stageState.write.processed = reporter.stageState.write.total]
       IN  [reporter |-> forced, calls |-> <<publish(forced), SinkFinish>>]

\* complete (lines 135-143).
complete(reporter) ==
  IF ~reporter.started THEN [reporter |-> reporter, calls |-> <<>>]
  ELSE LET forced ==
             [reporter EXCEPT
                !.stageState.render.processed = reporter.stageState.render.total,
                !.stageState.write.processed = reporter.stageState.write.total]
       IN  [reporter |-> [forced EXCEPT !.started = FALSE],
            calls |-> <<publish(forced), SinkFinish>>]

VARIABLES
  progress,    \* the PdfProgressReporter: stageState, currentStage, started
  sinkCalls,   \* the calls the last operation made on the sink, in order
  lastUpdate,  \* the last update the sink received, None before the first
  lastCall     \* the operation called last, with its arguments

progressVars == <<progress, sinkCalls, lastUpdate, lastCall>>

ProgressCall(op, stage, processedNow, total, writeTotal) ==
  [op |-> op, stage |-> stage, processed |-> processedNow, total |-> total,
   writeTotal |-> writeTotal]

ProgressInit ==
  /\ progress = NewReporter
  /\ sinkCalls = <<>>
  /\ lastUpdate = None
  /\ lastCall = ProgressCall("new", "render", 0, 0, None)

\* The reporter and the sink after an operation's result.
ReporterDoes(result) ==
  LET updates == SelectSeq(result.calls, LAMBDA c : c.call = "update")
  IN  /\ progress' = result.reporter
      /\ sinkCalls' = result.calls
      /\ lastUpdate' = IF updates = <<>> THEN lastUpdate
                       ELSE Some(updates[Len(updates)])

ReporterInitialise(renderTotal, writeTotal) ==
  /\ ReporterDoes(initialise(progress, renderTotal, writeTotal))
  /\ lastCall' = ProgressCall("initialise", "render", 0, renderTotal, writeTotal)

ReporterReport(stage, processedNow, total) ==
  /\ ReporterDoes(report(progress, stage, processedNow, total))
  /\ lastCall' = ProgressCall("report", stage, processedNow, total, None)

ReporterComplete ==
  /\ ReporterDoes(complete(progress))
  /\ lastCall' = ProgressCall("complete", "render", 0, 0, None)

\* ------------------------------------------------------------- github.ts
\* The decimal digits.
Digits == <<"0", "1", "2", "3", "4", "5", "6", "7", "8", "9">>

RECURSIVE DigitsValue(_)
\* The number a sequence of decimal digits spells.
DigitsValue(chars) ==
  IF chars = <<>> THEN 0
  ELSE 10 * DigitsValue(SubSeq(chars, 1, Len(chars) - 1))
         + (CHOOSE d \in 0..9 : Digits[d + 1] = chars[Len(chars)])

\* Line 45: NaN (None) for a header that is null, Number(header) otherwise:
\* 0 for the empty string, the integer a decimal numeral spells, NaN for
\* what is no numeral.
RemainingOf(header) ==
  IF header = None THEN None
  ELSE LET chars == header[1]
           unsigned == IF chars # <<>> /\ chars[1] = "-" THEN Tail(chars) ELSE chars
       IN  IF chars = <<>> THEN Some(0)
           ELSE IF unsigned = <<>> \/ \E i \in 1..Len(unsigned) :
                                        unsigned[i] \notin Range(Digits)
             THEN None
           ELSE IF chars[1] = "-" THEN Some(0 - DigitsValue(unsigned))
           ELSE Some(DigitsValue(unsigned))

\* Lines 47-48: "unknown reset" for an x-ratelimit-reset header that is
\* null or empty; otherwise new Date(Number(resetRaw) * 1000).toISOString(),
\* which spells the time for a number of seconds (those of the numerals
\* here are all within Date's range) and throws a RangeError for what is no
\* number (None).
ResetTimeOf(header) ==
  IF header = None \/ header = Some(<<>>) THEN Some("unknown reset")
  ELSE IF RemainingOf(header) = None THEN None
  ELSE Some([iso |-> RemainingOf(header)[1]])

\* What fetch settles with: a rejection, or a response with its status, its
\* x-ratelimit-remaining and x-ratelimit-reset headers (None for a header
\* that is not there) and whether reading its body settles with a value.
NetworkFailure ==
  [kind |-> "network", status |-> 0, remaining |-> None, reset |-> None,
   readable |-> FALSE]

HttpResponse(status, remaining, reset, readable) ==
  [kind |-> "http", status |-> status, remaining |-> remaining,
   reset |-> reset, readable |-> readable]

\* Line 46.
isRateLimited(response) ==
  /\ response.status = 403
  /\ RemainingOf(response.remaining) # None
  /\ RemainingOf(response.remaining)[1] <= 0

\* Line 54.
shouldRetry(response) == response.status = 429 \/ response.status >= 500

\* Lines 36 and 55 with one attempt more allowed.
attemptsLeftOneMore(attemptNow) == attemptNow <= MAX_RETRIES + 1

\* Lines 36 and 55: attempt <= MAX_RETRIES.
attemptsLeft(attemptNow) == attemptNow <= MAX_RETRIES

\* response.ok
ResponseOk(response) == response.status >= 200 /\ response.status < 300

VARIABLES
  reqStage,    \* where request is: idle, fetching, delaying, returned, failed
  attempt,     \* the `attempt` parameter of the call in progress
  fetched,     \* history: what each fetch settled with, in order
  delays,      \* history: the delays awaited, in units of RETRY_BASE_MS
  reqOutcome   \* how the request ended

requestVars == <<reqStage, attempt, fetched, delays, reqOutcome>>

RequestInit ==
  /\ reqStage = "idle"
  /\ attempt = 0
  /\ fetched = <<>>
  /\ delays = <<>>
  /\ reqOutcome = "pending"

\* getRepository, getTree, getBlob or getRateLimit calls request(path): the
\* first fetch is under way (lines 29-34).
RequestStart ==
  /\ reqStage = "idle"
  /\ reqStage' = "fetching"
  /\ attempt' = 1
  /\ UNCHANGED <<fetched, delays, reqOutcome>>

\* The fetch of the attempt settles (lines 31-65) up to the delay awaited
\* or to the end of the request; response.text() and response.json()
\* settle with it, with the body or with a rejection that request lets
\* through.
FetchSettles(response) ==
  /\ reqStage = "fetching"
  /\ fetched' = Append(fetched, response)
  /\ IF response.kind = "network"
       THEN IF attemptsLeft(attempt)
              THEN reqStage' = "delaying" /\ UNCHANGED reqOutcome
              ELSE reqStage' = "failed" /\ reqOutcome' = "network error"
     ELSE IF isRateLimited(response)
       THEN /\ reqStage' = "failed"
            /\ reqOutcome' = IF ResetTimeOf(response.reset) = None
                               THEN "invalid time value"
                               ELSE "rate limit exceeded"
     ELSE IF shouldRetry(response) /\ attemptsLeft(attempt)
       THEN reqStage' = "delaying" /\ UNCHANGED reqOutcome
     ELSE IF ~ResponseOk(response)
       THEN /\ reqStage' = "failed"
            /\ reqOutcome' = IF response.readable THEN "api error"
                             ELSE "body error"
     ELSE IF response.readable
       THEN reqStage' = "returned" /\ reqOutcome' = "json"
     ELSE reqStage' = "failed" /\ reqOutcome' = "body error"
  /\ UNCHANGED <<attempt, delays>>

\* delay(RETRY_BASE_MS * attempt) elapses and request calls itself with
\* attempt + 1 (lines 37-38 and 56-57): the next fetch is under way.
DelayElapses ==
  /\ reqStage = "delaying"
  /\ delays' = Append(delays, attempt)
  /\ attempt' = attempt + 1
  /\ reqStage' = "fetching"
  /\ UNCHANGED <<fetched, reqOutcome>>

\* ------------------------------------------- one blob, from path to section
VARIABLES
  blobDir,      \* the directory part of the blob's path, separator included
  blobName,     \* the last segment of the blob's path
  blobBytes,    \* the bytes decodeBase64ToBytes gave for the blob
  blobStage,    \* listed, classified, written
  blobVerdict,  \* what hasSkippedExtension and looksTexty answered
  blobSection   \* the two chunks exportToText wrote for the file

blobVars ==
  <<blobDir, blobName, blobBytes, blobStage, blobVerdict, blobSection>>

NoVerdict == [skipped |-> FALSE, texty |-> FALSE]

NoSection == [header |-> <<>>, content |-> <<>>]

BlobPath == blobDir \o blobName

BlobInit ==
  /\ blobDir = <<>>
  /\ blobName = <<>>
  /\ blobBytes = <<>>
  /\ blobStage = "none"
  /\ blobVerdict = NoVerdict
  /\ blobSection = NoSection

\* exporter.ts lines 98-100 and 183: the two classifiers on the blob's path
\* and bytes.
ClassifyBlob ==
  /\ blobStage = "listed"
  /\ blobStage' = "classified"
  /\ blobVerdict' = [skipped |-> hasSkippedExtension(BlobPath),
                     texty |-> looksTexty(BlobPath, blobBytes)]
  /\ UNCHANGED <<blobDir, blobName, blobBytes, blobSection>>

\* exporter.ts lines 195 and 273-277: an included file's text is decoded
\* and its section written, the header chunk and then the content chunk.
WriteSection ==
  /\ blobStage = "classified"
  /\ ~blobVerdict.skipped
  /\ blobVerdict.texty
  /\ blobStage' = "written"
  /\ blobSection' = [header |-> headerFor(BlobPath),
                     content |-> ensureTrailingNewline(TextDecode(blobBytes))]
  /\ UNCHANGED <<blobDir, blobName, blobBytes, blobVerdict>>

\* ------------------------------------- io.ts: the work directory's name
\* The characters /[a-z0-9._-]/i matches.
SegmentChars ==
  Range(UpperLetters) \cup Range(LowerLetters) \cup Range(Digits)
    \cup {".", "_", "-"}

RECURSIVE ReplaceRuns(_, _)
\* value.replace(/[^a-z0-9._-]+/gi, "-"): each longest run of other
\* characters becomes one "-"; inRun says the character before was replaced.
ReplaceRuns(value, inRun) ==
  IF value = <<>> THEN <<>>
  ELSE IF Head(value) \in SegmentChars
    THEN <<Head(value)>> \o ReplaceRuns(Tail(value), FALSE)
  ELSE IF inRun THEN ReplaceRuns(Tail(value), TRUE)
  ELSE <<"-">> \o ReplaceRuns(Tail(value), TRUE)

\* .replace(/^-+|-+$/g, ""): the hyphens at both ends are removed.
TrimHyphens(value) ==
  LET others == {i \in 1..Len(value) : value[i] # "-"}
  IN  IF others = {} THEN <<>>
      ELSE SubSeq(value,
                  CHOOSE i \in others : \A j \in others : i <= j,
                  CHOOSE i \in others : \A j \in others : j <= i)

\* sanitizeSegment (lines 198-200).
sanitizeSegment(value) == TrimHyphens(ReplaceRuns(value, FALSE))

\* An identity: coordinates.owner, repoName and branch.
RepoIdentity(owner, repo, branch) ==
  [owner |-> owner, repoName |-> repo, branch |-> branch]

\* workDirectoryFor (lines 202-207) for an identity: OUT_DIR/.work, "/o"
\* here, joined with `${owner}--${repo}--${branch}`, which is never "." or
\* ".." and holds no separator.
workDirectoryOf(identity) ==
  <<Slash, "o", Slash>>
    \o sanitizeSegment(identity.owner) \o <<"-", "-">>
    \o sanitizeSegment(identity.repoName) \o <<"-", "-">>
    \o sanitizeSegment(identity.branch)

VARIABLES
  writerId,    \* the identity a file was cached under
  readerId,    \* the identity the cache is read under
  cacheFiles,  \* the checkpoint files: location and bytes
  idStage,     \* none, given, written, read
  readBack,    \* what readCachedFile returned under readerId
  countBack    \* what countCachedFiles returned under readerId

idVars == <<writerId, readerId, cacheFiles, idStage, readBack, countBack>>

NoIdentity == RepoIdentity(<<>>, <<>>, <<>>)

IdInit ==
  /\ writerId = NoIdentity
  /\ readerId = NoIdentity
  /\ cacheFiles = {}
  /\ idStage = "none"
  /\ readBack = None
  /\ countBack = 0

\* The location of a file path under an identity's work directory.
CacheLocation(identity, filePath) ==
  resolveWithin(workDirectoryOf(identity), filePath).full

\* writeCachedFile(writerId, filePath, content) (lines 249-258).
WriteUnderIdentity(filePath, content) ==
  /\ idStage = "given"
  /\ idStage' = "written"
  /\ cacheFiles' =
       {f \in cacheFiles : f.location # CacheLocation(writerId, filePath)}
         \cup {[location |-> CacheLocation(writerId, filePath),
                bytes |-> Utf8Encode(content)]}
  /\ UNCHANGED <<writerId, readerId, readBack, countBack>>

\* readCachedFile(readerId, filePath) (lines 236-247) and
\* countCachedFiles(readerId, [filePath]) (lines 277-286).
ReadUnderIdentity(filePath) ==
  LET found == {f \in cacheFiles : f.location = CacheLocation(readerId, filePath)}
  IN  /\ idStage = "written"
      /\ idStage' = "read"
      /\ readBack' = IF found = {} THEN None
                     ELSE Some(DecodeCached((CHOOSE f \in found : TRUE).bytes))
      /\ countBack' = Cardinality(found)
      /\ UNCHANGED <<writerId, readerId, cacheFiles>>

\* ------------------------------------ exporter.ts: the document's framing
\* The strings of this section are sequences of UTF-16 code units.

\* "=".repeat(80) in code units.
SeparatorUnits == [i \in 1..80 |-> 61]

\* headerFor (text.ts, lines 50-53) on a path in code units.
headerForUnits(path) ==
  <<10>> \o SeparatorUnits \o <<10>> \o <<70, 73, 76, 69, 58, 32>> \o path
    \o <<10>> \o SeparatorUnits \o <<10>>

\* Math.round(MAX_TEXT_BLOB_BYTES / 1024 / 1024): halves round up.
MegaBytesRounded == (2 * MAX_TEXT_BLOB_BYTES + 1048576) \div (2 * 1048576)

\* buildHeader (lines 228-239).
buildHeader(line) ==
  <<35, 32, 82, 101, 112, 111, 115, 105, 116, 111, 114, 121, 58, 32>>
    \o line.owner \o <<47>> \o line.repoName \o <<10>>
    \o <<35, 32, 68, 101, 102, 97, 117, 108, 116, 32, 98, 114, 97, 110, 99,
         104, 58, 32>>
    \o line.branch \o <<10>>
    \o <<35, 32, 70, 105, 108, 101, 115, 32, 105, 110, 99, 108, 117, 100,
         101, 100, 58, 32, 116, 101, 120, 116, 45, 108, 105, 107, 101, 32,
         102, 105, 108, 101, 115, 32, 117, 112, 32, 116, 111, 32>>
    \o toString(MegaBytesRounded)
    \o <<32, 77, 66, 32, 101, 97, 99, 104, 46, 10>>
    \o (IF line.treeTruncated
          THEN <<35, 32, 87, 97, 114, 110, 105, 110, 103, 58, 32, 116, 114,
                 101, 101, 32, 108, 105, 115, 116, 105, 110, 103, 32, 116,
                 114, 117, 110, 99, 97, 116, 101, 100, 32, 98, 121, 32, 71,
                 105, 116, 72, 117, 98, 46, 10>>
          ELSE <<>>)
    \o <<10>>

\* buildFooter (lines 241-250).
buildFooter(totals) ==
  <<10, 10, 35, 32, 83, 117, 109, 109, 97, 114, 121, 58, 32, 105, 110, 99,
    108, 117, 100, 101, 100, 61>>
    \o toString(totals.included)
    \o <<44, 32, 115, 107, 105, 112, 112, 101, 100, 66, 105, 110, 97, 114,
         121, 61>>
    \o toString(totals.skippedBinary)
    \o <<44, 32, 115, 107, 105, 112, 112, 101, 100, 76, 97, 114, 103, 101,
         61>>
    \o toString(totals.skippedLarge)
    \o <<44, 32, 115, 107, 105, 112, 112, 101, 100, 69, 120, 116, 101, 110,
         115, 105, 111, 110, 61>>
    \o toString(totals.skippedExtension)
    \o <<44, 32, 116, 111, 116, 97, 108, 61>>
    \o toString(totals.total)
    \o (IF totals.truncatedTree
          THEN <<44, 32, 116, 114, 101, 101, 84, 114, 117, 110, 99, 97, 116,
                 101, 100, 61, 116, 114, 117, 101>>
          ELSE <<>>)
    \o <<10>>

\* writeChunk (io.ts, lines 36-54) on the bytes the stream holds:
\* stream.write(chunk, "utf8").
writeChunk(bytes, chunk) == bytes \o BufferFrom(chunk)

\* closeStream (io.ts, lines 56-61): stream.end(tail, "utf8", resolve).
closeStream(bytes, tail) == bytes \o BufferFrom(tail)

RECURSIVE FilePiecesRawContent(_)
\* The loop of lines 293-296 pushing file.content as it is.
FilePiecesRawContent(fileList) ==
  IF fileList = <<>> THEN <<>>
  ELSE <<headerForUnits(fileList[1].path), fileList[1].content>>
         \o FilePiecesRawContent(Tail(fileList))

RECURSIVE FilePieces(_)
\* The loop of lines 293-296 of exportToPdf: two pieces a file.
FilePieces(fileList) ==
  IF fileList = <<>> THEN <<>>
  ELSE <<headerForUnits(fileList[1].path),
         ensureTrailingNewline(fileList[1].content)>>
         \o FilePieces(Tail(fileList))

\* Lines 291-299 of exportToPdf: pieces.join("").
CombinedText(line, fileList, totals) ==
  join(<<buildHeader(line)>> \o FilePieces(fileList) \o <<buildFooter(totals)>>,
       <<>>)

VARIABLES
  frOutline,            \* the outline both exports are given
  frFiles,              \* the file list both exports are given
  frSummary,            \* the summary both exports are given
  frText,               \* where exportToText is
  frIndex,              \* the file exportToText's loop is at
  frWritten,            \* the bytes the output stream has taken
  frCombined            \* exportToPdf's `combined`, None before the join

frameVars ==
  <<frOutline, frFiles, frSummary, frText, frIndex, frWritten, frCombined>>

NoFraming ==
  [owner |-> <<>>, repoName |-> <<>>, branch |-> <<>>, treeTruncated |-> FALSE]

FrameInit ==
  /\ frOutline = NoFraming
  /\ frFiles = <<>>
  /\ frSummary = NoSummary
  /\ frText = "closed"
  /\ frIndex = 0
  /\ frWritten = <<>>
  /\ frCombined = None

\* exportToText, lines 269-271: the header.
TextWritesHeader ==
  /\ frText = "start"
  /\ frWritten' = writeChunk(frWritten, buildHeader(frOutline))
  /\ frText' = "files"
  /\ frIndex' = 1
  /\ UNCHANGED <<frOutline, frFiles, frSummary, frCombined>>

\* exportToText, lines 273-277: one turn of the loop.
TextWritesFile ==
  /\ frText = "files"
  /\ frIndex <= Len(frFiles)
  /\ frWritten' =
       writeChunk(writeChunk(frWritten, headerForUnits(frFiles[frIndex].path)),
                  ensureTrailingNewline(frFiles[frIndex].content))
  /\ frIndex' = frIndex + 1
  /\ UNCHANGED <<frOutline, frFiles, frSummary, frText, frCombined>>

\* exportToText, lines 279-281: the footer closes the stream.
TextWritesFooter ==
  /\ frText = "files"
  /\ frIndex > Len(frFiles)
  /\ frWritten' = closeStream(frWritten, buildFooter(frSummary))
  /\ frText' = "closed"
  /\ UNCHANGED <<frOutline, frFiles, frSummary, frIndex, frCombined>>

\* exportToPdf, lines 291-299.
PdfCombines ==
  /\ frCombined = None
  /\ frCombined' = Some(CombinedText(frOutline, frFiles, frSummary))
  /\ UNCHANGED <<frOutline, frFiles, frSummary, frText, frIndex, frWritten>>

\* ------------------------------- exporter.ts: exportToPdf's progress calls
VARIABLES
  runStage,             \* where exportToPdf is
  runPages,             \* the pages the renderer makes
  runEstimatedChunks,   \* the write total exportToPdf initialises with
  runActualChunks,      \* the chunks the document is written in
  runCount              \* the pages reported, then the chunks written

runVars ==
  <<runStage, runPages, runEstimatedChunks, runActualChunks, runCount>>

RunInit ==
  /\ runStage = "idle"
  /\ runPages = 1
  /\ runEstimatedChunks = 1
  /\ runActualChunks = 1
  /\ runCount = 0

\* Lines 309-312: pdfProgress.initialise with the estimated totals.
RunInitialises ==
  /\ runStage = "start"
  /\ ReporterInitialise(runPages, Some(runEstimatedChunks))
  /\ runStage' = "rendering"
  /\ runCount' = 0
  /\ UNCHANGED <<runPages, runEstimatedChunks, runActualChunks>>

\* Lines 314-322 with pdf.ts, line 87: the renderer's callback after a page.
RunReportsPage ==
  /\ runStage = "rendering"
  /\ runCount < runPages
  /\ ReporterReport("render", runCount + 1, runPages)
  /\ runCount' = runCount + 1
  /\ UNCHANGED <<runStage, runPages, runEstimatedChunks, runActualChunks>>

\* Lines 326-330: the render report with the page count.
RunReportsRendered ==
  /\ runStage = "rendering"
  /\ runCount = runPages
  /\ ReporterReport("render", runPages, runPages)
  /\ runStage' = "rendered"
  /\ UNCHANGED <<runPages, runEstimatedChunks, runActualChunks, runCount>>

\* Lines 333-338: the write report with the actual number of chunks.
RunReportsWriteTotal ==
  /\ runStage = "rendered"
  /\ ReporterReport("write", 0, runActualChunks)
  /\ runStage' = "writing"
  /\ runCount' = 0
  /\ UNCHANGED <<runPages, runEstimatedChunks, runActualChunks>>

\* Lines 342-355: one chunk written and reported.
RunWritesChunk ==
  /\ runStage = "writing"
  /\ runCount < runActualChunks
  /\ ReporterReport("write", runCount + 1, runActualChunks)
  /\ runCount' = runCount + 1
  /\ UNCHANGED <<runStage, runPages, runEstimatedChunks, runActualChunks>>

\* Lines 363-371: the stream has finished; pdfProgress.complete().
RunCompletes ==
  /\ runStage = "writing"
  /\ runCount = runActualChunks
  /\ ReporterComplete
  /\ runStage' = "completed"
  /\ UNCHANGED <<runPages, runEstimatedChunks, runActualChunks, runCount>>

\* The state of the renderer, the progress reporter, the client and the
\* blob.
sideVars == <<pdfVars, progressVars, requestVars, blobVars, idVars, frameVars, runVars>>

SideInit == PdfInit /\ ProgressInit /\ RequestInit /\ BlobInit /\ IdInit /\ FrameInit /\ RunInit

vars == <<mapVars, ckVars, exVars, sideVars>>


\* ------------------------------------------- specification: the limiter
MapCallAny ==
  \E its \in SeqsUpTo(ItemValues, MaxItems), lim \in Limits : MapCall(its, lim)

MapSettleAny ==
  \E r \in 1..MaxItems, ok \in BOOLEAN : MapSettle(r, ok)

InitMap == MapInit /\ CkInit /\ ExInit /\ SideInit

NextMap ==
  \/ MapCallAny /\ UNCHANGED <<ckVars, exVars, sideVars>>
  \/ MapSettleAny /\ UNCHANGED <<ckVars, exVars, sideVars>>

SpecMap == InitMap /\ [][NextMap]_vars

\* ---------------------------------- specification: the checkpoint store
\* Text: the empty string, and "Aé" (a one-byte and a two-byte character).
Contents == {<<>>, <<65, 233>>}

CkReadAny == \E filePath \in PathArgs : CkRead(filePath)

CkWriteAny == \E filePath \in PathArgs, content \in Contents : CkWrite(filePath, content)

CkHasAny == \E filePath \in PathArgs : CkHas(filePath)

CkCountAny == \E filePaths \in CountLists : CkCount(filePaths)

CkCleanupAny ==
  \E rmOk \in BOOLEAN :
    \E removed \in (IF rmOk THEN {{}}
                    ELSE SUBSET (Under(fs, workDirectoryFor) \cap DOMAIN fs.files)) :
      CkCleanup(rmOk, removed)

InitCkpt == MapInit /\ CkInit /\ ExInit /\ SideInit

NextCkpt ==
  \/ CkReadAny /\ UNCHANGED <<mapVars, exVars, sideVars>>
  \/ CkWriteAny /\ UNCHANGED <<mapVars, exVars, sideVars>>
  \/ CkHasAny /\ UNCHANGED <<mapVars, exVars, sideVars>>
  \/ CkCountAny /\ UNCHANGED <<mapVars, exVars, sideVars>>
  \/ CkCleanupAny /\ UNCHANGED <<mapVars, exVars, sideVars>>

SpecCkpt == InitCkpt /\ [][NextCkpt]_vars

\* -------------------------------------------- specification: the export
\* One program run after the other: the outline is loaded, the collector
\* works through the eligible blobs, the artifact is written, the work
\* directory is purged. GitHub truncates the listings that reach its size
\* limit, MaxTree entries here.
LoadOutlineAny ==
  \E listing \in Trees :
    \E truncated \in (IF Len(listing) = MaxTree THEN BOOLEAN ELSE {FALSE}) :
      LoadOutline(listing, truncated) /\ UNCHANGED sideVars

WorkerReadAny == \E r \in DOMAIN runners : WorkerRead(r) /\ UNCHANGED sideVars

WorkerBlobAny ==
  \E r \in DOMAIN runners, response \in BlobResponses :
    WorkerBlob(r, response) /\ UNCHANGED sideVars

WorkerWriteAny == \E r \in DOMAIN runners : WorkerWrite(r) /\ UNCHANGED sideVars

PrepareOutputAny ==
  \E mkdirOk \in BOOLEAN : PrepareOutput(mkdirOk) /\ UNCHANGED sideVars

ExportWriteAny == \E ok \in BOOLEAN : ExportWrite(ok) /\ UNCHANGED sideVars

ExportCleanupAny ==
  \E rmOk \in BOOLEAN :
    \E removed \in (IF rmOk THEN {{}}
                    ELSE {{}, Under(fs, workDirectoryFor) \cap DOMAIN fs.files}) :
      ExportCleanup(rmOk, removed) /\ UNCHANGED sideVars

ExportRenderAny == \E ok \in BOOLEAN : ExportRender(ok) /\ UNCHANGED sideVars

Formats == {"text", "pdf"}

ExportStartAny ==
  \E outputFormat \in Formats : ExportStart(outputFormat) /\ UNCHANGED sideVars

\* The text an interrupted earlier run cached.
CachedText == <<65, 233>>

RECURSIVE StoreAfter(_, _)
\* The store after writeCachedFile for each of the paths.
StoreAfter(store, paths) ==
  IF paths = {} THEN store
  ELSE LET p == CHOOSE q \in paths : TRUE
       IN  StoreAfter(writeCachedFile(store, p, CachedText).fs, paths \ {p})

\* What an interrupted earlier run left in the store: the paths it included.
LeftBehind == {{}, {<<"a">>}}

\* One run of the program, on an empty work directory or on the one an
\* interrupted run left behind.
Init ==
  /\ MapInit
  /\ SideInit
  /\ lastOp = NoOp
  /\ lastWritten = NoFiles
  /\ cleanupCalled = FALSE
  /\ ckOps = 0
  /\ \E left \in LeftBehind :
       /\ fs = StoreAfter(EmptyStore, left)
       /\ doneBefore = left
  /\ tree = <<>>
  /\ outline = NoOutline
  /\ exStage = "idle"
  /\ phase = <<>>
  /\ text = <<>>
  /\ processed = 0
  /\ events = <<>>
  /\ blobCalls = <<>>
  /\ files = <<>>
  /\ summary = NoSummary
  /\ outFile = Artifact("absent", 0)
  /\ finishedSuccessfully = FALSE
  /\ exResult = NoResult
  /\ cleanupRm = "none"
  /\ runs = 0
  /\ storeChecks = {}
  /\ format = "none"

Next ==
  \/ LoadOutlineAny
  \/ ExportStartAny
  \/ WorkerReadAny
  \/ WorkerBlobAny
  \/ WorkerWriteAny
  \/ PrepareOutputAny
  \/ ExportRenderAny
  \/ ExportWriteAny
  \/ ExportCleanupAny

Spec == Init /\ [][Next]_vars

\* ------------------------------------- specification: a run and its rerun
\* A run that fails and the run started after it, exporting as text the
\* listings of fewer than MaxTree entries.
LoadShortOutlineAny ==
  \E listing \in {t \in Trees : Len(t) < MaxTree} :
    LoadOutline(listing, FALSE) /\ UNCHANGED sideVars

InitResume == MapInit /\ CkInit /\ ExInit /\ SideInit

NextResume ==
  \/ LoadShortOutlineAny
  \/ ExportStart("text") /\ UNCHANGED sideVars
  \/ WorkerReadAny
  \/ WorkerBlobAny
  \/ WorkerWriteAny
  \/ PrepareOutputAny
  \/ ExportWriteAny
  \/ ExportCleanupAny
  \/ Rerun /\ UNCHANGED sideVars

SpecResume == InitResume /\ [][NextResume]_vars

\* ---------------------------------------------------- claims: the limiter
\* What a sequential map over the items yields.
SequentialMap(its) == [i \in 1..Len(its) |-> worker(its[i], i)]

\* The transform invocations started and not yet settled.
InFlight == Len(calls) - Len(settled)

FailedAt == {i \in 1..Len(settled) : ~settled[i].ok}

\* C1: with a limit of at least 1, a call whose transform invocations all
\* succeeded resolves, and it resolves to an array of the items' length whose
\* i-th entry is the transform's result for the i-th item, in whatever order
\* the invocations completed.
C1_ResultsInItemOrder ==
  /\ mapState = "resolved" =>
       /\ returned # None
       /\ Len(returned[1]) = Len(items)
       /\ returned[1] = SequentialMap(items)
  /\ (mapState # "idle" /\ limit >= 1 /\ FailedAt = {} /\ InFlight = 0) =>
       mapState = "resolved"

\* C1 witness: three items under limit 2, completed out of item order.
C1_Witness ==
  /\ mapState = "resolved"
  /\ items = <<1, 2, 1>>
  /\ limit = 2
  /\ [i \in 1..Len(settled) |-> settled[i].position] = <<2, 3, 1>>

\* C2: with a limit of at least 1, at most min(limit, N) transform
\* invocations are started and not yet settled, in every state of the call.
C2_InFlightBounded ==
  (mapState # "idle" /\ limit >= 1) => InFlight <= Min(limit, Len(items))

\* C2 witness: the cap binds after a completion let a runner claim again.
C2_Witness ==
  /\ Len(items) = 3
  /\ limit = 2
  /\ Len(settled) = 1
  /\ InFlight = 2

\* C3: once a transform invocation has failed the call is rejected, with the
\* first failure, and it has resolved with no array, whatever the other
\* invocations do afterwards.
C3_FailureRejects ==
  FailedAt # {} =>
    /\ mapState = "rejected"
    /\ mapError.kind = "worker"
    /\ mapError.position =
         settled[CHOOSE i \in FailedAt : \A j \in FailedAt : i <= j].position
    /\ returned = None

\* C3 witness: a failure followed by two successful invocations.
C3_Witness ==
  /\ Len(settled) = 3
  /\ ~settled[1].ok
  /\ settled[2].ok
  /\ settled[3].ok

\* C4: a call with a limit below 1 fails with the limit error and no
\* transform invocation is started, for every item list.
C4_LimitBelowOneFails ==
  (mapState # "idle" /\ limit < 1) =>
    /\ mapState = "rejected"
    /\ mapError.kind = "limit"
    /\ calls = <<>>
    /\ returned = None

\* C4 witness: limit 0 with the empty item list.
C4_Witness ==
  /\ mapState = "rejected"
  /\ limit = 0
  /\ items = <<>>

\* --------------------------------------------- claims: the checkpoint store
\* The location the last call's (first) path argument resolves to.
LastTarget == ResolvedAt[lastOp.paths[1]].full

\* A location is the work directory or lies under it, by path segments.
Inside(q) == q = workDirectoryFor \/ workDirectoryFor \in AncestorsAt[q]

PathOps == {"read", "write", "has", "count"}

C6_AbsentWhenNotWritten ==
  (/\ lastOp.op = "read"
   /\ lastOp.outcome # "path-violation"
   /\ LastTarget \notin DOMAIN lastWritten) =>
    /\ lastOp.outcome = "ok"
    /\ lastOp.value = None

\* C7: a call given a path either fails with the path-violation error or acts
\* only on locations inside the identity's work directory.
C7_PathsStayInside ==
  lastOp.op \in PathOps =>
    \/ lastOp.outcome = "path-violation"
    \/ \A q \in lastOp.touched : Inside(q)

InitOutline == MapInit /\ CkInit /\ ExInit /\ SideInit

NextOutline == LoadOutlineAny

SpecOutline == InitOutline /\ [][NextOutline]_vars

\* ----------------------------------------------- claims about the export
\* The kinds of the progress events emitted so far by the run.
EventsWithState(states) == {i \in 1..Len(events) : events[i].state \in states}

\* The blob entries of the listing the run's outline was loaded from.
BlobEntries == {i \in 1..Len(tree) : tree[i].type = "blob"}

\* C9: cleanupWorkDirectory never fails: once its rm has ended, whether it
\* succeeded or failed, the run has returned its result, the completely
\* written output and the summary, and a run that set finishedSuccessfully
\* never ends rejected.
C9_CleanupFailureSwallowed ==
  /\ cleanupRm # "none" =>
       /\ exResult.state = "returned"
       /\ exResult.summary = summary
       /\ exResult.output = "complete"
  /\ (finishedSuccessfully /\ exStage \in {"done", "failed"}) =>
       exResult.state = "returned"

\* A run that included a file has returned although rm failed and left the
\* work directory's files behind.
C9_Witness ==
  /\ cleanupRm = "failed"
  /\ exResult.state = "returned"
  /\ exResult.summary.included >= 1
  /\ Under(fs, workDirectoryFor) \cap DOMAIN fs.files # {}

\* C10: the summary a successful run returns satisfies included +
\* skippedBinary + skippedLarge + skippedExtension = total, total is the
\* number of blob entries of the tree listing, and included is the number of
\* items reported as included or as cached.
C10_SummaryPartition ==
  exResult.state = "returned" =>
    LET s == exResult.summary
    IN  /\ s.included + s.skippedBinary + s.skippedLarge + s.skippedExtension
             = s.total
        /\ s.total = Cardinality(BlobEntries)
        /\ s.included = Cardinality(EventsWithState({"included", "cached"}))
        /\ s.skippedBinary = Cardinality(EventsWithState({"skipped"}))

\* A run returned after a cache hit, a fresh inclusion and a skipped blob.
C10_Witness ==
  /\ exResult.state = "returned"
  /\ EventsWithState({"cached"}) # {}
  /\ EventsWithState({"included"}) # {}
  /\ EventsWithState({"skipped"}) # {}

\* A run returned for a listing holding a blob skipped by its extension and
\* a blob skipped by its size.
C10_WitnessSkips ==
  /\ exResult.state = "returned"
  /\ exResult.summary.skippedExtension >= 1
  /\ exResult.summary.skippedLarge >= 1
  /\ exResult.summary.included >= 1

\* The store lookups of the run that found an entry.
Hits == {c \in storeChecks : c.hit}

\* The files of the collector's result that have the path.
FilesAt(path) == {j \in 1..Len(files) : files[j].path = path}

\* C12: for every eligible blob whose path had an entry when its worker
\* looked the store up, no getBlob call was made for it, it was reported
\* at once with state "cached" and with no other state, and the file the
\* collector returns for it holds the cached text unchanged.
C12_CacheHitShortCircuits ==
  \A c \in Hits :
    /\ \A i \in 1..Len(blobCalls) : blobCalls[i] # c.path
    /\ \E i \in 1..Len(events) : events[i].path = c.path
    /\ \A i \in 1..Len(events) :
         events[i].path = c.path => events[i].state = "cached"
    /\ \A j \in FilesAt(c.path) : files[j].content = CachedText
    /\ mapState = "resolved" => FilesAt(c.path) # {}

\* A run returned whose collector found an entry for a blob and returned
\* the cached text for it, next to a blob it fetched.
C12_Witness ==
  /\ exResult.state = "returned"
  /\ \E c \in Hits : \E j \in FilesAt(c.path) : files[j].content = CachedText
  /\ Len(blobCalls) >= 1

\* C13: the progress events carry processed = 1, 2, ... in emission order
\* and total = the number of eligible blobs, no blob is reported twice, and
\* a collection in which no item failed has emitted exactly one event per
\* eligible blob, the last one with processed = total.
C13_ProgressCountsEachItemOnce ==
  /\ \A i \in 1..Len(events) :
       /\ events[i].processed = i
       /\ events[i].total = Len(outline.eligibleBlobs)
       /\ \E blob \in Range(outline.eligibleBlobs) : blob.path = events[i].path
       /\ \A j \in 1..Len(events) : events[j].path = events[i].path => j = i
  /\ processed = Len(events)
  /\ mapState = "resolved" =>
       /\ Len(events) = Len(outline.eligibleBlobs)
       /\ \A blob \in Range(outline.eligibleBlobs) :
            \E i \in 1..Len(events) : events[i].path = blob.path

\* A collection of three blobs ended without failure, one blob cached, one
\* skipped and one included, the first event not being the first item's.
C13_Witness ==
  /\ mapState = "resolved"
  /\ Len(events) = 3
  /\ events[3].processed = 3
  /\ events[1].path # items[1].path
  /\ EventsWithState({"cached"}) # {}
  /\ EventsWithState({"included"}) # {}
  /\ EventsWithState({"skipped"}) # {}

\* The text the store holds for a path.
StoredText(path) == Utf8Decode(fs.files[ResolvedAt[path].full])

\* C14: the files the collector returns are in ascending path order, and
\* they are the same sequence under every interleaving: one file for each
\* blob reported as included or cached and for no other, holding the text
\* the store holds for that blob.
C14_FilesInPathOrder ==
  mapState = "resolved" =>
    /\ \A j, k \in 1..Len(files) :
         j < k => localeCompare(files[j].path, files[k].path) < 0
    /\ {files[j].path : j \in 1..Len(files)}
         = {events[i].path : i \in EventsWithState({"included", "cached"})}
    /\ cleanupRm = "none" =>
         \A j \in 1..Len(files) :
           /\ HasEntry(fs, files[j].path)
           /\ files[j].content = StoredText(files[j].path)

\* A run returned three files for a listing that named them in another
\* order, the blobs having finished in an order that is neither.
C14_Witness ==
  /\ exResult.state = "returned"
  /\ Len(files) = 3
  /\ [i \in 1..3 |-> outline.eligibleBlobs[i].path] # [i \in 1..3 |-> files[i].path]
  /\ [i \in 1..3 |-> events[i].path] # [i \in 1..3 |-> files[i].path]
  /\ [i \in 1..3 |-> events[i].path] # [i \in 1..3 |-> outline.eligibleBlobs[i].path]

\* C15: in a run that follows a failed run, getBlob is called for no blob
\* whose processing the failed run had finished.
C15_NoRefetchOfFinishedBlobs ==
  \A i \in 1..Len(blobCalls) : blobCalls[i] \notin doneBefore

\* The work directory holds no entry.
StoreEmpty == Under(fs, workDirectoryFor) \cap DOMAIN fs.files = {}

\* C16: cleanupWorkDirectory is invoked if and only if the run completed
\* successfully, and only once the artifact is completely written and
\* closed; a removal that succeeds leaves no entry. A run that failed, at
\* whatever stage, has not invoked it, and the store still returns every
\* entry written so far and every entry earlier runs left, with its text.
C16_PurgeOnlyAfterSuccess ==
  /\ (cleanupCalled \/ exStage = "cleaning") =>
       /\ finishedSuccessfully
       /\ outFile = Artifact("complete", PieceCount)
       /\ AllDone(runners)
  /\ finishedSuccessfully => exStage \in {"cleaning", "done"}
  /\ exStage = "done" => cleanupCalled /\ exResult.state = "returned"
  /\ cleanupRm = "ok" => StoreEmpty
  /\ exStage = "failed" =>
       /\ ~cleanupCalled
       /\ cleanupRm = "none"
       /\ exResult.state = "rejected"
  /\ ~cleanupCalled =>
       /\ \A q \in DOMAIN lastWritten :
            /\ IsFile(fs, q)
            /\ Utf8Decode(fs.files[q]) = lastWritten[q].content
       /\ \A path \in doneBefore :
            readCachedFile(fs, path).value = Some(CachedText)
       /\ \A i \in EventsWithState({"included"}) :
            readCachedFile(fs, events[i].path).value # None

\* A PDF export failed while writing, after it had included a blob next to
\* the entry an earlier run left.
C16_Witness ==
  /\ exStage = "failed"
  /\ format = "pdf"
  /\ outFile.state = "partial"
  /\ EventsWithState({"included"}) # {}
  /\ EventsWithState({"cached"}) # {}

\* A text export failed in the collector with an entry written.
C16_WitnessCollector ==
  /\ exStage = "failed"
  /\ mapState = "rejected"
  /\ DOMAIN lastWritten # {}

\* C17: a run that failed, at whatever point, has left no output file at
\* the artifact path, neither an empty nor a partially written one.
C17_NoArtifactAfterFailure ==
  exStage = "failed" => outFile.state = "absent"

\* The output stage of the run has begun.
OutputBegun(stage, artifact) ==
  \/ artifact.state # "absent"
  \/ stage \in {"rendering", "writing", "cleaning", "done"}

\* C18: the output stage starts strictly after the collector stage: when
\* prepareOutputFile is invoked and from then on, every runner
\* has returned, every eligible blob has reported its progress and the
\* collector's promise is resolved; and once the stream is opened no step
\* calls getBlob, reads a checkpoint entry or writes one (the store changes
\* only in the final cleanup).
C18_OutputAfterCollector ==
  [][/\ OutputBegun(exStage', outFile') =>
          /\ \A r \in DOMAIN runners' : runners'[r].pc = "done"
          /\ mapState' = "resolved"
          /\ processed' = Len(items')
          /\ Len(events') = Len(outline'.eligibleBlobs)
          /\ Len(settled') = Len(calls')
     /\ OutputBegun(exStage, outFile) =>
          /\ blobCalls' = blobCalls
          /\ storeChecks' = storeChecks
          /\ calls' = calls
          /\ settled' = settled
          /\ events' = events
          /\ fs' # fs => exStage = "cleaning"
          /\ lastWritten' # lastWritten => exStage = "cleaning"]_vars

\* A run over two blobs that fetched one and wrote its entry ended with a
\* complete artifact.
C18_Witness ==
  /\ exStage = "done"
  /\ outFile.state = "complete"
  /\ Len(events) >= 2
  /\ Len(blobCalls) >= 1
  /\ EventsWithState({"included"}) # {}

\* ---------------------------------------------- claims about the outline
\* The blob entries of the listing whose path the extension or lock-name
\* filter rejects, and those it lets pass that are over the size ceiling.
ExtensionSkippedEntries ==
  {i \in BlobEntries : hasSkippedExtensionAt[tree[i].path]}

OversizedEntries ==
  {i \in BlobEntries :
     /\ ~hasSkippedExtensionAt[tree[i].path]
     /\ tree[i].size # NoSize
     /\ tree[i].size > MAX_TEXT_BLOB_BYTES}

\* C11: for every listing, eligibleBlobs is a subset of blobs,
\* skippedExtension + skippedLarge + |eligibleBlobs| <= |blobs|, and the
\* extension filter comes first: skippedExtension counts every blob with a
\* skipped extension, whatever its size, and skippedLarge counts only the
\* oversized blobs among the others.
C11_ExtensionFilterFirst ==
  exStage = "loaded" =>
    /\ Range(outline.eligibleBlobs) \subseteq Range(outline.blobs)
    /\ Range(outline.blobs) = {tree[i] : i \in BlobEntries}
    /\ outline.skippedExtension + outline.skippedLarge
         + Len(outline.eligibleBlobs) <= Len(outline.blobs)
    /\ outline.skippedExtension = Cardinality(ExtensionSkippedEntries)
    /\ outline.skippedLarge = Cardinality(OversizedEntries)
    /\ \A blob \in Range(outline.eligibleBlobs) :
         /\ ~hasSkippedExtensionAt[blob.path]
         /\ blob.size = NoSize \/ blob.size <= MAX_TEXT_BLOB_BYTES

\* An outline was loaded from a listing with a blob that has a skipped
\* extension and is over the ceiling, an oversized blob with no skipped
\* extension, and an eligible blob.
C11_Witness ==
  /\ exStage = "loaded"
  /\ \E i \in ExtensionSkippedEntries : tree[i].size > MAX_TEXT_BLOB_BYTES
  /\ OversizedEntries # {}
  /\ outline.skippedExtension = 1
  /\ outline.skippedLarge = 1
  /\ Len(outline.eligibleBlobs) = 1

\* ------------------------------------------ specification: splitIntoPages
InitPages ==
  /\ MapInit /\ CkInit /\ ExInit /\ ProgressInit /\ RequestInit /\ BlobInit /\ IdInit /\ FrameInit /\ RunInit
  /\ pdfStage = "lines"
  /\ \E n \in 0..MaxLines : lines = NumberedLines(n)
  /\ pages = <<>>
  /\ objects = <<>>
  /\ loopIdx = 0
  /\ reports = <<>>
  /\ offsets = <<>>
  /\ xrefOffset = 0
  /\ pdfBuffer = <<>>
  /\ pdfText = <<>>
  /\ estimatedPages = 0

\* What stays as it is while the renderer works.
besidePdfVars == <<mapVars, ckVars, exVars, progressVars, requestVars, blobVars, idVars, frameVars, runVars>>

NextPages == SplitPages /\ UNCHANGED besidePdfVars

SpecPages == InitPages /\ [][NextPages]_vars

RECURSIVE Flatten(_)
\* The pages' lines, one page after the other.
Flatten(ps) == IF ps = <<>> THEN <<>> ELSE Head(ps) \o Flatten(Tail(ps))

\* C19: for n >= 1 lines and L = floor((792 - 48 - 48) / 12) = 58 lines per
\* page, splitIntoPages yields ceil(n / L) pages, every page but the last
\* holds L lines, the last holds n - L * (pages - 1) lines, and the pages
\* one after the other are the input lines in order; for 0 lines it yields
\* one page holding one empty line.
C19_PagesPartitionTheLines ==
  pdfStage = "pages" =>
    LET n == Len(lines)
        L == (792 - 48 - 48) \div 12
        count == Len(pages)
    IN  /\ L = 58
        /\ n = 0 => pages = << << <<>> >> >>
        /\ n >= 1 =>
             /\ count = (n + L - 1) \div L
             /\ \A p \in 1..(count - 1) : Len(pages[p]) = L
             /\ Len(pages[count]) = n - L * (count - 1)
             /\ Len(pages[count]) \in 1..L
             /\ n % L # 0 => Len(pages[count]) = n % L
             /\ Flatten(pages) = lines

\* Two full pages and a third of fewer lines.
C19_Witness ==
  /\ pdfStage = "pages"
  /\ Len(lines) > 2 * 58
  /\ Len(pages) = 3

\* No line at all.
C19_WitnessEmpty ==
  /\ pdfStage = "pages"
  /\ Len(lines) = 0
  /\ Len(pages) = 1

\* ---------------------------------------- specification: the PDF renderer
\* Lines of text: "A", "é(", "€\", an emoji (a surrogate pair), a high
\* surrogate without its pair followed by a tab, the empty line, and a
\* carriage return followed by "A".
LineValues ==
  <<(<<65>>), (<<233, 40>>), (<<8364, 92>>), (<<55357, 56832>>),
    (<<55357, 9>>), (<<>>), (<<13, 65>>)>>

\* The line break of a text: "\n", or "\r\n" for every other text.
LineBreak(shift) == IF shift % 2 = 0 THEN <<10>> ELSE <<13, 10>>

\* A text of n lines that goes through the line values, from one of them on.
TextLines(n, shift) ==
  [i \in 1..n |-> LineValues[((i + shift) % Len(LineValues)) + 1]]

InitPdf ==
  /\ MapInit /\ CkInit /\ ExInit /\ ProgressInit /\ RequestInit /\ BlobInit /\ IdInit /\ FrameInit /\ RunInit
  /\ pdfStage = "text"
  /\ \E n \in 1..MaxPdfLines, shift \in 0..(Len(LineValues) - 1) :
       pdfText = join(TextLines(n, shift), LineBreak(shift))
  /\ lines = <<>>
  /\ pages = <<>>
  /\ objects = <<>>
  /\ loopIdx = 0
  /\ reports = <<>>
  /\ offsets = <<>>
  /\ xrefOffset = 0
  /\ pdfBuffer = <<>>
  /\ estimatedPages = 0

NextPdf ==
  \/ EstimatePages /\ UNCHANGED besidePdfVars
  \/ RenderStart /\ UNCHANGED besidePdfVars
  \/ RenderNextPage /\ UNCHANGED besidePdfVars
  \/ RenderFinish /\ UNCHANGED besidePdfVars

SpecPdf == InitPdf /\ [][NextPdf]_vars

\* The bytes of the stream from the byte position at, count of them.
BytesAt(bytes, at, count) == SubSeq(bytes, at + 1, at + count)

\* The bytes of the stream start, at the byte position at, with the ASCII text.
StartsAt(bytes, at, ascii) ==
  /\ at + Len(ascii) <= Len(bytes)
  /\ BytesAt(bytes, at, Len(ascii)) = ascii

IsDigit(b) == b >= 48 /\ b <= 57

RECURSIVE ParseDecimal(_)
\* The number a sequence of ASCII digits spells.
ParseDecimal(digits) ==
  IF digits = <<>> THEN 0
  ELSE 10 * ParseDecimal(SubSeq(digits, 1, Len(digits) - 1))
         + (digits[Len(digits)] - 48)

RECURSIVE DigitsBefore(_, _)
\* The number of ASCII digits that end at the position `last` of the stream.
DigitsBefore(bytes, last) ==
  IF last >= 1 /\ IsDigit(bytes[last])
    THEN 1 + DigitsBefore(bytes, last - 1) ELSE 0

\* The startxref value read off the end of the stream: the digits in front
\* of "\n%%EOF".
StartxrefIn(bytes) ==
  LET last == Len(bytes) - 6
      count == DigitsBefore(bytes, last)
  IN  ParseDecimal(SubSeq(bytes, last - count + 1, last))

\* The offset the cross-reference table of the stream, found at the byte
\* position table, records for the object id of total objects.
XrefEntryIn(bytes, table, total, id) ==
  LET first == table + 7 + Len(toString(total + 1)) + 1
  IN  ParseDecimal(BytesAt(bytes, first + 20 * id, 10))

\* C20: in the bytes createPdfBuffers returned, the offset the cross-
\* reference table records for every object i is the byte position at which
\* "i 0 obj" starts, and the startxref value is the byte position of the
\* "xref" keyword, whatever the number of pages and the characters of the
\* lines.
C20_OffsetsAreBytePositions ==
  pdfStage = "rendered" =>
    LET total == 2 * Len(pages) + 3
        table == StartxrefIn(pdfBuffer)
    IN  /\ Len(objects) = total
        /\ table = xrefOffset
        /\ StartsAt(pdfBuffer, Len(pdfBuffer) - 6, <<10, 37, 37, 69, 79, 70>>)
        /\ StartsAt(pdfBuffer, table - 1, <<10, 120, 114, 101, 102, 10>>)
        /\ \A id \in 1..total :
             LET at == XrefEntryIn(pdfBuffer, table, total, id)
             IN  /\ at = offsets[id]
                 /\ StartsAt(pdfBuffer, at - 1,
                             <<10>> \o toString(id) \o <<32, 48, 32, 111, 98, 106, 10>>)

\* A document of two pages was rendered from lines with characters of two,
\* three and four bytes.
C20_Witness ==
  /\ pdfStage = "rendered"
  /\ Len(pages) = 2
  /\ Len(reports) = 2
  /\ \E i \in 1..Len(pdfBuffer) : pdfBuffer[i] >= 240
  /\ Len(pdfBuffer) > xrefOffset
  /\ offsets[Len(offsets)] > Len(lines)

\* The pages whose content stream is set, by their 0-based position.
ContentStreamsSet(array, count) ==
  {idx \in 0..(count - 1) : array[contentObjects(count, idx)] # NullObject}

\* C21: rendering a document of P pages with a progress callback gives P
\* progress events, one after each page's content stream is set, with
\* processed = 1, 2, ..., P in that order and total = P in each; no step
\* between two suspensions encodes more than one page, so the renderer has
\* yielded after a page's event before it encodes the next page.
C21_OneEventPerPage ==
  [][pdfStage' \in {"rendering", "rendered"} =>
       /\ reports' = [i \in 1..Len(reports') |->
                        [processed |-> i, total |-> Len(pages')]]
       /\ Cardinality(ContentStreamsSet(objects', Len(pages'))) = Len(reports')
       /\ ContentStreamsSet(objects', Len(pages')) = 0..(Len(reports') - 1)
       /\ Len(reports') <= Len(reports) + 1
       /\ Len(reports') <= Len(pages')
       /\ pdfStage' = "rendered" =>
            /\ Len(reports') = Len(pages')
            /\ reports' = reports]_vars

\* A document of two pages was rendered, with two events.
C21_Witness ==
  /\ pdfStage = "rendered"
  /\ Len(pages) = 2
  /\ reports = <<[processed |-> 1, total |-> 2], [processed |-> 2, total |-> 2]>>

\* C22: for every text, estimatePdfPageCount gives the page count that
\* renderPdfFromText returns for it, so the render total announced before
\* the rendering is the total of every render event that follows.
C22_EstimateIsPageCount ==
  pdfStage \in {"rendering", "rendered"} =>
    /\ estimatePdfPageCount(pdfText) = Len(pages)
    /\ estimatedPages # 0 =>
         /\ estimatedPages = Len(pages)
         /\ \A i \in 1..Len(reports) : reports[i].total = estimatedPages

\* A text with "\r\n" line breaks and a carriage return inside a line was
\* estimated at two pages and rendered.
C22_Witness ==
  /\ pdfStage = "rendered"
  /\ estimatedPages = 2
  /\ Len(reports) = 2
  /\ \E i \in 1..(Len(pdfText) - 1) : pdfText[i] = 13 /\ pdfText[i + 1] = 10
  /\ \E i \in 1..(Len(pdfText) - 1) : pdfText[i] = 13 /\ pdfText[i + 1] # 10

\* C36: while createPdfBuffers renders a document of P >= 1 pages, the
\* object table holds 2P + 3 entries; when the serialization begins none of
\* them is unpopulated, object 1 is the font, objects 2..P+1 are the content
\* streams, objects P+2..2P+1 the pages, object 2P+2 the pages collection
\* and object 2P+3 the catalog; the rendering never fails, and the trailer
\* names object 2P + 3 as Root.
C36_ObjectTableComplete ==
  pdfStage \in {"rendering", "rendered", "failed"} =>
    LET count == Len(pages)
        total == 2 * count + 3
        \* " /Root "
        trailerRoot == <<32, 47, 82, 111, 111, 116, 32>>
        \* " 0 R >>\nstartxref\n"
        trailerStartxref == <<32, 48, 32, 82, 32, 62, 62, 10, 115, 116, 97, 114, 116, 120, 114, 101, 102, 10>>
        \* "\n%%EOF"
        trailerEnd == <<10, 37, 37, 69, 79, 70>>
        ending == trailerRoot \o toString(total) \o trailerStartxref
                    \o toString(xrefOffset) \o trailerEnd
    IN  /\ count >= 1
        /\ Len(objects) = total
        /\ pdfStage # "failed"
        /\ pdfStage = "rendered" =>
             /\ \A id \in 1..total : objects[id] # NullObject
             \* "<< /Type /Font "
             /\ StartsAt(objects[1], 0, <<60, 60, 32, 47, 84, 121, 112, 101, 32, 47, 70, 111, 110, 116, 32>>)
             \* "<< /Length "
             /\ \A id \in 2..(count + 1) : StartsAt(objects[id], 0, <<60, 60, 32, 47, 76, 101, 110, 103, 116, 104, 32>>)
             \* "<< /Type /Page "
             /\ \A id \in (count + 2)..(2 * count + 1) :
                  StartsAt(objects[id], 0, <<60, 60, 32, 47, 84, 121, 112, 101, 32, 47, 80, 97, 103, 101, 32>>)
             \* "<< /Type /Pages "
             /\ StartsAt(objects[total - 1], 0, <<60, 60, 32, 47, 84, 121, 112, 101, 32, 47, 80, 97, 103, 101, 115, 32>>)
             \* "<< /Type /Catalog "
             /\ StartsAt(objects[total], 0, <<60, 60, 32, 47, 84, 121, 112, 101, 32, 47, 67, 97, 116, 97, 108, 111, 103, 32>>)
             /\ Len(offsets) = total
             /\ StartsAt(pdfBuffer, Len(pdfBuffer) - Len(ending), ending)

\* A document of two pages reached its serialization with seven objects.
C36_Witness ==
  /\ pdfStage = "rendered"
  /\ Len(pages) = 2
  /\ Len(objects) = 7
  /\ \A id \in 1..7 : objects[id] # NullObject
  /\ Len(offsets) = 7

\* ----------------------------------- specification: the progress reporter
\* The processed and total values the callers report: negative, zero and up.
ProgressValues == (0 - 1)..MaxProgress

PdfProgressStages == {"render", "write"}

besideProgressVars == <<mapVars, ckVars, exVars, pdfVars, requestVars, blobVars, idVars, frameVars, runVars>>

ReporterInitialiseAny ==
  \E renderTotal \in ProgressValues,
     writeTotal \in {None} \cup {Some(v) : v \in ProgressValues} :
    ReporterInitialise(renderTotal, writeTotal) /\ UNCHANGED besideProgressVars

ReporterReportAny ==
  \E stage \in PdfProgressStages, processedNow \in ProgressValues,
     total \in ProgressValues :
    ReporterReport(stage, processedNow, total) /\ UNCHANGED besideProgressVars

InitProgress == MapInit /\ CkInit /\ ExInit /\ SideInit

NextProgress ==
  \/ ReporterInitialiseAny
  \/ ReporterReportAny
  \/ ReporterComplete /\ UNCHANGED besideProgressVars

SpecProgress == InitProgress /\ [][NextProgress]_vars

\* The updates among the calls an operation made on the sink.
UpdatesIn(sinkLog) == SelectSeq(sinkLog, LAMBDA c : c.call = "update")

\* C23: after any initialise and report calls, a complete call that reaches
\* the sink leaves, as the last update delivered, one with
\* processed = total.
C23_LastUpdateIsTotal ==
  (lastCall.op = "complete" /\ sinkCalls # <<>>) =>
    lastUpdate[1].processed = lastUpdate[1].total

\* C24: while the reporter is started, no report call and no complete call
\* lowers the processed value a stage holds.
C24_StageProcessedNeverDecreases ==
  [][(progress.started /\ lastCall'.op \in {"report", "complete"}) =>
       \A stage \in PdfProgressStages :
         progress'.stageState[stage].processed
           >= progress.stageState[stage].processed]_vars

\* C25: after every operation, whatever its arguments, each stage holds
\* 0 <= processed <= total, and every call made on the sink carries a total
\* of at least 1 and, for an update, 0 <= processed <= total.
C25_StagesAndUpdatesBounded ==
  /\ \A stage \in PdfProgressStages :
       /\ 0 <= progress.stageState[stage].processed
       /\ progress.stageState[stage].processed <= progress.stageState[stage].total
  /\ \A i \in 1..Len(sinkCalls) :
       sinkCalls[i].call \in {"start", "update"} =>
         /\ sinkCalls[i].total >= 1
         /\ 0 <= sinkCalls[i].processed
         /\ sinkCalls[i].processed <= sinkCalls[i].total
  /\ lastUpdate # None =>
       /\ lastUpdate[1].total >= 1
       /\ 0 <= lastUpdate[1].processed
       /\ lastUpdate[1].processed <= lastUpdate[1].total

\* A report of more processed than its negative total was published.
C25_Witness ==
  /\ lastCall.op = "report"
  /\ lastCall.total < 0
  /\ lastCall.processed > 0
  /\ Len(UpdatesIn(sinkCalls)) = 1
  /\ progress.stageState[lastCall.stage] = [processed |-> 0, total |-> 0]

\* C26: the update an operation publishes last has processed =
\* render.processed + write.processed and total = max(render.total +
\* write.total, processed, 1) of the stages as the operation leaves them; a
\* report on a started reporter puts its total (0 for a negative one) in
\* place of the reported stage's total and leaves the other stage alone, so
\* the advertised total moves when an estimate is replaced.
C26_UpdateAggregatesStages ==
  [][/\ UpdatesIn(sinkCalls') # <<>> =>
          LET update == UpdatesIn(sinkCalls')[Len(UpdatesIn(sinkCalls'))]
              render == progress'.stageState.render
              write == progress'.stageState.write
          IN  /\ update.processed = render.processed + write.processed
              /\ update.total =
                   Max(Max(render.total + write.total,
                           render.processed + write.processed), 1)
              /\ update = lastUpdate'[1]
     /\ lastCall'.op = "report" =>
          /\ progress'.stageState[lastCall'.stage].total = Max(lastCall'.total, 0)
          /\ progress.started =>
               \A stage \in PdfProgressStages \ {lastCall'.stage} :
                 progress'.stageState[stage] = progress.stageState[stage]]_vars

\* After initialise(2, 1), a write report with total 2 was published with
\* the total 4.
C26_Witness ==
  /\ lastCall = ProgressCall("report", "write", 0, 2, None)
  /\ Len(sinkCalls) = 1
  /\ progress.stageState.render = [processed |-> 0, total |-> 2]
  /\ lastUpdate = Some([call |-> "update", processed |-> 0, total |-> 4,
                        path |-> "write"])

\* ---------------------------------------- specification: one API request
\* The x-ratelimit-remaining headers: none, empty, "0", "-1", "5" and one
\* that is no number.
RemainingHeaders ==
  {None, Some(<<>>), Some(<<"0">>), Some(<<"-", "1">>), Some(<<"5">>),
   Some(<<"x">>)}

\* The x-ratelimit-reset headers: none, a time and one that is no number.
ResetHeaders == {None, Some(<<"1", "7">>), Some(<<"x">>)}

\* What a fetch settles with.
Responses ==
  {NetworkFailure}
    \cup {HttpResponse(403, remaining, reset, TRUE) :
            remaining \in RemainingHeaders, reset \in ResetHeaders}
    \cup {HttpResponse(status, Some(<<"5">>), None, readable) :
            status \in {200, 404, 429, 500}, readable \in BOOLEAN}
    \cup {HttpResponse(status, Some(<<"0">>), None, TRUE) :
            status \in {200, 429, 500}}

besideRequestVars == <<mapVars, ckVars, exVars, pdfVars, progressVars, blobVars, idVars, frameVars, runVars>>

FetchSettlesAny ==
  \E response \in Responses :
    FetchSettles(response) /\ UNCHANGED besideRequestVars

InitRequest == MapInit /\ CkInit /\ ExInit /\ SideInit

NextRequest ==
  \/ RequestStart /\ UNCHANGED besideRequestVars
  \/ FetchSettlesAny
  \/ DelayElapses /\ UNCHANGED besideRequestVars

SpecRequest == InitRequest /\ [][NextRequest]_vars

\* fetch and the delay timer settle: a request under way takes its next
\* step.
SpecRequestLive == SpecRequest /\ WF_vars(NextRequest)

\* A 403 response whose x-ratelimit-remaining header spells a number <= 0.
OutOfQuota(response) ==
  /\ response.kind = "http"
  /\ response.status = 403
  /\ RemainingOf(response.remaining) # None
  /\ RemainingOf(response.remaining)[1] <= 0

\* C27: a 403 response whose x-ratelimit-remaining header is <= 0 is the
\* last one the request fetches, at whichever attempt it arrives, and the
\* request has failed with the rate-limit error.
C27_RateLimitFailsAtOnce ==
  \A i \in 1..Len(fetched) :
    OutOfQuota(fetched[i]) =>
      /\ i = Len(fetched)
      /\ reqStage = "failed"
      /\ reqOutcome = "rate limit exceeded"

\* What request retries after.
Transient(response) ==
  \/ response.kind = "network"
  \/ response.status = 429
  \/ response.status >= 500

RequestEnded == reqStage \in {"returned", "failed"}

C28_Retries ==
  /\ Len(fetched) <= MAX_RETRIES + 1
  /\ \A i \in 1..(Len(fetched) - 1) : Transient(fetched[i])
  /\ \A i \in 1..Len(fetched) :
       (Transient(fetched[i]) /\ i <= MAX_RETRIES) =>
         (i < Len(fetched) \/ reqStage = "delaying"
            \/ (reqStage = "fetching" /\ attempt = i + 1))
  /\ \A i \in 1..Len(fetched) :
       (fetched[i].kind = "http" /\ ResponseOk(fetched[i])) =>
         /\ i = Len(fetched)
         /\ RequestEnded
         /\ fetched[i].readable => reqStage = "returned"
  /\ reqStage = "returned" =>
       /\ fetched # <<>>
       /\ ResponseOk(fetched[Len(fetched)])
  /\ (RequestEnded /\ \A i \in 1..Len(fetched) : Transient(fetched[i])) =>
       /\ reqStage = "failed"
       /\ Len(fetched) = MAX_RETRIES + 1
  /\ \A i \in 1..Len(fetched) :
       (fetched[i].status >= 400 /\ fetched[i].status < 500
          /\ fetched[i].status # 429) =>
         /\ i = Len(fetched)
         /\ reqStage = "failed"
  /\ delays = [i \in 1..Len(delays) |-> i]
  /\ reqStage = "fetching" => Len(fetched) = attempt - 1

\* C28: request fetches again after a network failure, a 429 or a status
\* >= 500 while attempt <= MAX_RETRIES, and returns the first response that
\* is ok; it never fetches more than MAX_RETRIES + 1 times, and fails at
\* fetch MAX_RETRIES + 1 when every fetch failed transiently; a 4xx other
\* than 429 ends it at the fetch that brought it, the first included; and
\* every request ends, returned or failed.
C28_RetriesThenEnds == []C28_Retries /\ <>RequestEnded

\* A network failure, a 500 and a 429 used up the attempts.
C28_Witness ==
  /\ reqStage = "failed"
  /\ Len(fetched) = MAX_RETRIES + 1
  /\ \A i \in 1..Len(fetched) : Transient(fetched[i])
  /\ \E i \in 1..Len(fetched) : fetched[i].kind = "network"
  /\ \E i \in 1..Len(fetched) : fetched[i].status = 500
  /\ delays = <<1, 2>>

\* A 500 and then a 200 were fetched: the request returned at attempt 2.
C28_WitnessReturned ==
  /\ reqStage = "returned"
  /\ Len(fetched) = 2
  /\ fetched[1].status = 500
  /\ fetched[2].status = 200

\* ------------------------------------- specification: one blob's section
\* Names the claim calls lock files, and names that are none.
LockNames ==
  {<<"l", "o", "c", "k", "f", "i", "l", "e">>,
   <<"y", "a", "r", "n", ".", "l", "o", "c", "k">>,
   <<"x", ".", "l", "o", "c", "k">>,
   <<"x", ".", "l", "o", "c", "k", "f", "i", "l", "e">>,
   <<"p", "n", "p", "m", "-", "l", "o", "c", "k", ".", "y", "a", "m", "l">>,
   <<"p", "a", "c", "k", "a", "g", "e", "-", "l", "o", "c", "k", ".", "j", "s", "o", "n">>,
   <<"x", "-", "l", "o", "c", "k", ".", "t", "s">>}

OtherNames ==
  {<<"a">>,
   <<"a", ".", "t", "s">>,
   <<"a", ".", "p", "n", "g">>,
   <<"l", "o", "c", "k">>,
   <<"x", "l", "o", "c", "k", "f", "i", "l", "e">>,
   <<"l", "o", "c", "k", ".", "t", "s">>}

\* toUpperCase on the letters a to z.
UpperChar(c) ==
  IF \E i \in 1..26 : LowerLetters[i] = c
    THEN UpperLetters[CHOOSE i \in 1..26 : LowerLetters[i] = c]
  ELSE c

toUpperCase(str) == [i \in 1..Len(str) |-> UpperChar(str[i])]

\* The first letter in upper case.
Capitalised(str) == <<UpperChar(str[1])>> \o Tail(str)

BlobNames ==
  UNION {{name, toUpperCase(name), Capitalised(name)} :
           name \in LockNames \cup OtherNames}

\* No directory, a directory, a directory under one named like a source
\* file and written with a backslash, and a directory whose name ends with
\* a line feed.
BlobDirs ==
  {<<>>,
   <<"d", "/">>,
   <<"a", ".", "t", "s", "/", "d", "\\">>,
   <<"d", "\n", "/">>}

\* Bytes of files: empty, text with no, one, two and three line feeds at the
\* end, a line feed alone, a CR LF ending, a byte order mark, and zeros.
BlobContents ==
  {<<>>, <<97>>, <<97, 10>>, <<97, 10, 10>>, <<97, 10, 10, 10>>, <<10>>,
   <<97, 13, 10>>, <<239, 187, 191>>, <<0, 0, 0>>}

besideBlobVars == <<mapVars, ckVars, exVars, pdfVars, progressVars, requestVars, idVars, frameVars, runVars>>

InitBlob ==
  /\ MapInit /\ CkInit /\ ExInit /\ PdfInit /\ ProgressInit /\ RequestInit /\ IdInit /\ FrameInit /\ RunInit
  /\ blobDir \in BlobDirs
  /\ blobName \in BlobNames
  /\ blobBytes \in BlobContents
  /\ blobStage = "listed"
  /\ blobVerdict = NoVerdict
  /\ blobSection = NoSection

NextBlob ==
  \/ ClassifyBlob /\ UNCHANGED besideBlobVars
  \/ WriteSection /\ UNCHANGED besideBlobVars

SpecBlob == InitBlob /\ [][NextBlob]_vars

\* The number of line feeds a text ends with.
TrailingNewlines(value) ==
  Cardinality({n \in 1..Len(value) :
                 \A i \in (Len(value) - n + 1)..Len(value) : value[i] = LineFeed})

\* C29 as stated: the content chunk of every written section ends with
\* exactly one line feed.
C29_ExactlyOneTrailingNewline ==
  blobStage = "written" => TrailingNewlines(blobSection.content) = 1

\* C29: the content chunk of every written section ends with a line feed;
\* it is the file's text unchanged when that ends with a line feed, however
\* many, and the text with one line feed appended otherwise.
C29_AtLeastOneTrailingNewline ==
  blobStage = "written" =>
    LET fileText == TextDecode(blobBytes)
    IN  /\ TrailingNewlines(blobSection.content) >= 1
        /\ TrailingNewlines(fileText) >= 1 => blobSection.content = fileText
        /\ TrailingNewlines(fileText) = 0 =>
             /\ blobSection.content = fileText \o <<LineFeed>>
             /\ TrailingNewlines(blobSection.content) = 1

\* A file ending with three line feeds was written with the three.
C29_Witness ==
  /\ blobStage = "written"
  /\ TrailingNewlines(TextDecode(blobBytes)) = 3
  /\ TrailingNewlines(blobSection.content) = 3

\* A file with no line feed at its end was written with one.
C29_WitnessAppended ==
  /\ blobStage = "written"
  /\ blobBytes = <<97>>
  /\ blobSection.content = <<97, 10>>

\* The shapes of a lock file's base name, in lower case.
IsLockName(lowerName) ==
  \/ lowerName = <<"l", "o", "c", "k", "f", "i", "l", "e">>
  \/ EndsWith(lowerName, <<".", "l", "o", "c", "k">>)
  \/ EndsWith(lowerName, <<".", "l", "o", "c", "k", "f", "i", "l", "e">>)
  \/ Includes(lowerName, <<"-", "l", "o", "c", "k", ".">>)

\* C30: a blob whose base name is a lock file's in some letter case, in
\* whatever directory and with whatever bytes, is skipped by
\* hasSkippedExtension and is not text for looksTexty.
C30_LockFilesAreSkipped ==
  (blobStage = "classified" /\ IsLockName(toLowerCase(blobName))) =>
    /\ blobVerdict.skipped
    /\ ~blobVerdict.texty

\* ------------------------------------------ claims: the limiter's workers
\* Every started transform invocation settles: the invocation a runner
\* awaits does not stay pending for ever.
InvocationSettles(r) ==
  \E ok \in BOOLEAN : MapSettle(r, ok) /\ UNCHANGED <<ckVars, exVars, sideVars>>

SpecMapLive == SpecMap /\ \A r \in 1..MaxItems : WF_vars(InvocationSettles(r))

\* C31: once a transform invocation has failed, no runner claims a further
\* item: no invocation is started after the failure.
C31_NoClaimAfterFailure == [][FailedAt # {} => calls' = calls]_vars

\* C32: no position is claimed twice, and a call in which no invocation
\* failed has, once resolved, claimed every position: the transform was
\* invoked exactly once per item.
C32_EachItemClaimedOnce ==
  /\ \A i, j \in 1..Len(calls) : i # j => calls[i] # calls[j]
  /\ \A i \in 1..Len(calls) : calls[i] \in 1..Len(items)
  /\ (mapState = "resolved" /\ FailedAt = {}) =>
       /\ Range(calls) = 1..Len(items)
       /\ Len(calls) = Len(items)
       /\ Len(settled) = Len(items)

\* Three items under limit 2: the second invocation completed first and its
\* runner claimed the third item.
C32_Witness ==
  /\ mapState = "resolved"
  /\ Len(items) = 3
  /\ limit = 2
  /\ calls = <<1, 2, 3>>
  /\ [i \in 1..Len(settled) |-> settled[i].position] = <<2, 1, 3>>
  /\ FailedAt = {}

\* Every runner has left its loop and the call's promise has settled.
MapEnded ==
  /\ mapState \in {"resolved", "rejected"}
  /\ \A r \in DOMAIN runners : runners[r].pc \in {"done", "rejected"}

\* A call with no items: no runner, no invocation, the empty array.
EmptyCallResolves ==
  (mapState # "idle" /\ limit >= 1 /\ items = <<>>) =>
    /\ runners = <<>>
    /\ calls = <<>>
    /\ mapState = "resolved"
    /\ returned = Some(<<>>)

\* C33: when every started invocation settles, a call with a limit of at
\* least 1 ends: every runner leaves its loop and the promise settles; a
\* call with no items starts no runner, invokes nothing and resolves to the
\* empty array.
C33_CallEnds ==
  /\ []EmptyCallResolves
  /\ (mapState # "idle") ~> MapEnded

\* Three items under limit 2 ended with every invocation settled.
C33_Witness ==
  /\ MapEnded
  /\ Len(items) = MaxItems
  /\ limit = 2
  /\ Len(settled) = MaxItems
  /\ mapState = "resolved"

\* No items under limit 3.
C33_WitnessEmpty ==
  /\ mapState = "resolved"
  /\ items = <<>>
  /\ limit = MaxLimit
  /\ returned = Some(<<>>)

\* --------------------------------------- claims: the collector's workers
\* The checkpoint file of an item: where readCachedFile looks for it and
\* writeCachedFile puts it.
CheckpointFileOf(item) == ResolvedAt[item.path].full

\* The runners whose worker is between its claim and its return.
WorkingRunners == {r \in DOMAIN runners : runners[r].pc = "awaiting"}

\* C34: the items of a run have pairwise distinct paths and pairwise
\* distinct checkpoint files; no position is claimed by two invocations; and
\* the workers at work at the same time work on different checkpoint files.
C34_OneWorkerPerCheckpointFile ==
  exStage \in {"collecting", "preparing", "failed"} =>
    /\ \A i, j \in 1..Len(items) :
         i # j => /\ items[i].path # items[j].path
                  /\ CheckpointFileOf(items[i]) # CheckpointFileOf(items[j])
    /\ \A i, j \in 1..Len(calls) : i # j => calls[i] # calls[j]
    /\ \A r1, r2 \in WorkingRunners :
         r1 # r2 => CheckpointFileOf(CurrentItem(r1)) # CheckpointFileOf(CurrentItem(r2))

\* Two workers are at their writeCachedFile at the same time.
C34_Witness ==
  /\ exStage = "collecting"
  /\ \E r1, r2 \in WorkingRunners :
       /\ r1 # r2
       /\ phase[r1] = "write"
       /\ phase[r2] = "write"
       /\ CheckpointFileOf(CurrentItem(r1)) # CheckpointFileOf(CurrentItem(r2))

\* ------------------------------ specification: two identities, one cache
\* Owners, repository names and branches: plain ones, a branch with a
\* separator and the same with a hyphen, and names holding "--".
Owners == {<<"o">>, <<"p">>}

RepoNames == {<<"r">>, <<"r", "-", "-", "x">>}

Branches == {<<"b">>, <<"x", "-", "-", "b">>, <<"f", "/", "x">>, <<"f", "-", "x">>}

Identities ==
  {RepoIdentity(owner, repo, branch) :
     owner \in Owners, repo \in RepoNames, branch \in Branches}

besideIdVars ==
  <<mapVars, ckVars, exVars, pdfVars, progressVars, requestVars, blobVars, frameVars, runVars>>

InitIdentity ==
  /\ MapInit /\ CkInit /\ ExInit /\ PdfInit /\ ProgressInit /\ RequestInit /\ BlobInit /\ FrameInit /\ RunInit
  /\ writerId \in Identities
  /\ readerId \in Identities
  /\ cacheFiles = {}
  /\ idStage = "given"
  /\ readBack = None
  /\ countBack = 0

NextIdentity ==
  \/ WriteUnderIdentity(<<"a">>, CachedText) /\ UNCHANGED besideIdVars
  \/ ReadUnderIdentity(<<"a">>) /\ UNCHANGED besideIdVars

SpecIdentity == InitIdentity /\ [][NextIdentity]_vars

\* C35: two different identities have different work directories, and what
\* was cached under one is not read and not counted under the other.
C35_IdentitiesAreIsolated ==
  (idStage = "read" /\ writerId # readerId) =>
    /\ workDirectoryOf(writerId) # workDirectoryOf(readerId)
    /\ readBack = None
    /\ countBack = 0

\* ------------------------- specification: one document, two output modes
\* Names and contents in code units: plain ones, a content that ends in a
\* newline, an empty one, one with a character outside the basic plane, and
\* a path holding an unpaired surrogate.
FramingOutlines ==
  {[owner |-> <<111>>, repoName |-> <<114>>, branch |-> b, treeTruncated |-> t] :
     b \in {<<98>>, <<233>>}, t \in BOOLEAN}

FramingFiles ==
  {[path |-> <<97>>, content |-> <<120>>],
   [path |-> <<98, 47, 99>>, content |-> <<121, 10>>],
   [path |-> <<100>>, content |-> <<>>],
   [path |-> <<55357>>, content |-> <<55357, 56832, 233>>]}

MaxFramed == 2

besideFrameVars ==
  <<mapVars, ckVars, exVars, pdfVars, progressVars, requestVars, blobVars,
    idVars, runVars>>

InitFraming ==
  /\ MapInit /\ CkInit /\ ExInit /\ PdfInit /\ ProgressInit /\ RequestInit
  /\ BlobInit /\ IdInit /\ RunInit
  /\ frOutline \in FramingOutlines
  /\ frFiles \in SeqsUpTo(FramingFiles, MaxFramed)
  /\ \E binary \in {0, 12} :
       frSummary = [included |-> Len(frFiles), skippedBinary |-> binary,
                    skippedLarge |-> 1, skippedExtension |-> 0,
                    total |-> Len(frFiles) + binary + 1,
                    truncatedTree |-> frOutline.treeTruncated]
  /\ frText = "start"
  /\ frIndex = 0
  /\ frWritten = <<>>
  /\ frCombined = None

NextFraming ==
  \/ TextWritesHeader /\ UNCHANGED besideFrameVars
  \/ TextWritesFile /\ UNCHANGED besideFrameVars
  \/ TextWritesFooter /\ UNCHANGED besideFrameVars
  \/ PdfCombines /\ UNCHANGED besideFrameVars

SpecFraming == InitFraming /\ [][NextFraming]_vars

\* C37: once text mode has closed its stream and PDF mode has joined its
\* pieces, for the same outline, files and summary, the bytes on the stream
\* are the UTF-8 bytes of the joined text.
C37_TextBytesAreThePdfText ==
  (frText = "closed" /\ frCombined # None) =>
    frWritten = BufferFrom(frCombined[1])

C37_Witness ==
  /\ frText = "closed"
  /\ frCombined # None
  /\ Len(frFiles) = 2
  /\ frFiles[1].content = <<120>>
  /\ frFiles[2].path = <<55357>>
  /\ frOutline.treeTruncated
  /\ frWritten = BufferFrom(frCombined[1])

\* -------------------------- specification: exportToPdf over the reporter
\* The pages of the document, and the chunks estimated from the text and
\* counted on the rendered bytes, which need not agree.
MaxRunPages == 3

MaxRunChunks == 3

besideRunVars ==
  <<mapVars, ckVars, exVars, pdfVars, requestVars, blobVars, idVars, frameVars>>

InitRun ==
  /\ MapInit /\ CkInit /\ ExInit /\ PdfInit /\ ProgressInit /\ RequestInit
  /\ BlobInit /\ IdInit /\ FrameInit
  /\ runStage = "start"
  /\ runPages \in 1..MaxRunPages
  /\ runEstimatedChunks \in 1..MaxRunChunks
  /\ runActualChunks \in 1..MaxRunChunks
  /\ runCount = 0

NextRun ==
  \/ RunInitialises /\ UNCHANGED besideRunVars
  \/ RunReportsPage /\ UNCHANGED besideRunVars
  \/ RunReportsRendered /\ UNCHANGED besideRunVars
  \/ RunReportsWriteTotal /\ UNCHANGED besideRunVars
  \/ RunWritesChunk /\ UNCHANGED besideRunVars
  \/ RunCompletes /\ UNCHANGED besideRunVars

SpecRun == InitRun /\ [][NextRun]_vars

\* The last update before a step, then the updates the step delivers.
UpdatesAcrossStep ==
  (IF lastUpdate = None THEN <<>> ELSE <<lastUpdate[1]>>) \o UpdatesIn(sinkCalls')

\* C38: during one exportToPdf run the processed value of the updates never
\* decreases from one update to the next, every update has
\* processed <= total, and after complete the last update has
\* processed = total = pages + actual chunks.
C38_RunProgressIsMonotone ==
  /\ [][\A i \in 1..(Len(UpdatesAcrossStep) - 1) :
          UpdatesAcrossStep[i + 1].processed >= UpdatesAcrossStep[i].processed]_vars
  /\ [](\A i \in DOMAIN UpdatesIn(sinkCalls) :
          UpdatesIn(sinkCalls)[i].processed <= UpdatesIn(sinkCalls)[i].total)
  /\ [](runStage = "completed" =>
          /\ lastUpdate # None
          /\ lastUpdate[1].processed = runPages + runActualChunks
          /\ lastUpdate[1].total = runPages + runActualChunks)

C38_Witness ==
  /\ runStage = "completed"
  /\ runPages = 2
  /\ runEstimatedChunks = 3
  /\ runActualChunks = 2
  /\ lastUpdate = Some([call |-> "update", processed |-> 4, total |-> 4,
                        path |-> "write"])

\* ------------------------------------ claims: the reporter and its sink
\* The stage state a report leaves in its stage: the total not below zero,
\* processed between zero and that total.
StageAfterReport(call) ==
  [processed |-> Min(Max(call.processed, 0), Max(call.total, 0)),
   total |-> Max(call.total, 0)]

\* What a report on a reporter that is not started does, up to the total of
\* its last update: start, an update 0/total on the render stage, the
\* event's update; the other stage as initialise left it.
ReportInitialisesFirst ==
  LET other == IF lastCall'.stage = "render" THEN "write" ELSE "render"
  IN  /\ Len(sinkCalls') = 3
      /\ sinkCalls'[1].call = "start"
      /\ sinkCalls'[2] = [call |-> "update", processed |-> 0,
                          total |-> sinkCalls'[1].total, path |-> "render"]
      /\ sinkCalls'[3].call = "update"
      /\ sinkCalls'[3].path = lastCall'.stage
      /\ sinkCalls'[3].processed = StageAfterReport(lastCall').processed
      /\ progress'.started
      /\ progress'.stageState[lastCall'.stage] = StageAfterReport(lastCall')
      /\ progress'.stageState[other] =
           [processed |-> 0,
            total |-> IF other = "write" THEN 0 ELSE Max(lastCall'.total, 0)]

\* C39 as stated: a report on a reporter that is not started initialises
\* first, and for an event of the render stage the total published is the
\* event's total.
C39_FirstRenderTotalIsEventTotal ==
  [][(~progress.started /\ lastCall'.op = "report") =>
       /\ ReportInitialisesFirst
       /\ lastCall'.stage = "render" => sinkCalls'[3].total = lastCall'.total]_vars

\* C39, amended: a report on a reporter that is not started initialises
\* first with the event's total as the render total and a write total of
\* zero, emitting start and a 0/total update, and then applies the event;
\* for an event of the render stage the totals started with and published
\* are the event's total where it is 1 or more, and 1 where it is less.
C39_ReportInitialisesFirst ==
  [][(~progress.started /\ lastCall'.op = "report") =>
       /\ ReportInitialisesFirst
       /\ lastCall'.stage = "render" =>
            /\ sinkCalls'[1].total = Max(lastCall'.total, 1)
            /\ sinkCalls'[3].total = Max(lastCall'.total, 1)]_vars

C39_Witness ==
  /\ lastCall = ProgressCall("report", "render", 1, 0, None)
  /\ sinkCalls =
       <<SinkStart(1),
         [call |-> "update", processed |-> 0, total |-> 1, path |-> "render"],
         [call |-> "update", processed |-> 0, total |-> 1, path |-> "render"]>>
  /\ progress.started

RECURSIVE SinkProtocol(_, _, _)
\* The sink's side of the calls: a cycle is open from a start to the finish
\* after it. An update or a finish outside a cycle breaks the protocol, and
\* so does a start inside one unless restarts are let through.
SinkProtocol(sinkLog, open, restarts) ==
  IF sinkLog = <<>> THEN [ok |-> TRUE, open |-> open]
  ELSE LET c == Head(sinkLog)
       IN  IF c.call = "start"
             THEN IF open /\ ~restarts THEN [ok |-> FALSE, open |-> open]
                  ELSE SinkProtocol(Tail(sinkLog), TRUE, restarts)
           ELSE IF ~open THEN [ok |-> FALSE, open |-> open]
           ELSE SinkProtocol(Tail(sinkLog), c.call # "finish", restarts)

\* C40 as stated, a cycle being what a start opens: every call keeps to the
\* protocol, no start arrives inside an open cycle, so that every cycle is
\* finished once, and complete on a reporter that is not started emits
\* nothing.
C40_EveryCycleFinishedOnce ==
  [][/\ SinkProtocol(sinkCalls', progress.started, FALSE).ok
     /\ SinkProtocol(sinkCalls', progress.started, FALSE).open = progress'.started
     /\ (lastCall'.op = "complete" /\ ~progress.started) => sinkCalls' = <<>>]_vars

\* C40, amended: the sink receives a start before the first update of a
\* cycle, no update and no finish outside a cycle, and at most one finish
\* in a cycle; the reporter is started exactly while a cycle is open;
\* complete on a reporter that is not started emits nothing; an initialise
\* inside an open cycle sends a further start with no finish before it.
C40_SinkProtocolWithRestarts ==
  [][/\ SinkProtocol(sinkCalls', progress.started, TRUE).ok
     /\ SinkProtocol(sinkCalls', progress.started, TRUE).open = progress'.started
     /\ (lastCall'.op = "complete" /\ ~progress.started) => sinkCalls' = <<>>
     /\ (lastCall'.op = "initialise" /\ progress.started) =>
          (sinkCalls'[1].call = "start" /\ progress'.started)]_vars

C40_Witness ==
  /\ lastCall.op = "complete"
  /\ ~progress.started
  /\ Len(sinkCalls) = 2
  /\ sinkCalls[1].call = "update"
  /\ sinkCalls[2] = SinkFinish
  /\ lastUpdate = Some(sinkCalls[1])
  /\ lastUpdate[1].processed = 3

====
